---- MODULE Spec2Model ----
(***************************************************************************)
(* Model of the task orchestrator of github_hub (src/github_hub/master.py: *)
(* MasterAgent) and of the catalog store it drives                          *)
(* (src/github_hub/database.py).                                            *)
(*                                                                          *)
(* MasterAgent holds no lock: every method runs on the thread that called   *)
(* it (an HTTP trigger thread, the daily scheduler, the backlog scheduler)  *)
(* and reads and writes self.is_running, self.current_task and              *)
(* self.progress directly.  One step of a thread is therefore one access    *)
(* to that shared run state, or one block of collaborator calls between two *)
(* such accesses.                                                           *)
(***************************************************************************)
EXTENDS Integers, Sequences, FiniteSets, TLC

\* ------------------------------------------------------------- bounds
NThreads == 2      \* threads that call into the orchestrator
MaxIds == 2        \* repository identifiers the search source can return
MaxCalls == 3      \* calls made in one behaviour
MaxItems == 2      \* items on one page of search results
MaxLimit == 3      \* the limit a caller of search_remote passes
MaxDays == 2       \* calendar days the clock passes through
NClients == 2      \* clients of the live event stream
MaxEvents == 3     \* events passed to _notify in one behaviour
MaxCallbacks == 3  \* callbacks registered with the MasterAgent
MaxLinks == 33     \* links on one external page

\* ---------------------------------------------------- program constants
NumDiscoveryUrls == 2          \* len(DISCOVERY_URLS)

Threads == 1..NThreads
Ids == 1..MaxIds
None == "None"
\* No row with that identifier.
Absent == [category |-> "", ai |-> "absent"]

\* The configured categories (CATEGORIES, in the order of the dict): two of
\* the seventeen, "news" being the one the discovery stage writes to.
CategoryOrder == <<"llm_rag", "news">>
CATEGORIES == {CategoryOrder[i] : i \in 1..Len(CategoryOrder)}

\* The AI fields of an entry: ai_summary null ("none"); a summary with
\* ai_model_name null ("nomodel"); a summary with a model name that does not
\* contain "120b" ("other"); a summary tagged with a 120b model ("120b").
Entry(c, a) == [category |-> c, ai |-> a]

\* What the collaborators can answer: the repositories a search of the
\* search source returns, and those a discovery page links to.
SearchResults == {{}, {1}}
\* ... and what an analysis leaves in the entry: analyze_project's record
\* has a summary and no model_name key, so ai_model_name is written as null.
AnalysisResults == {"nomodel"}
CrawlResults == {{}, {MaxIds}}

\* The catalog the process finds when it starts: empty, or a backlog of
\* entries that no category fetch of this configuration produced.
InitCatalogs == {[i \in Ids |-> Absent], [i \in Ids |-> Entry("manual_scraped", "none")]}

VARIABLES
  is_running,     \* self.is_running
  current_task,   \* self.current_task
  progress,       \* self.progress: total and done
  catalog,        \* the projects table: id -> entry or Absent
  pc,             \* where each thread is
  nested,         \* the thread's run_news_scan was called by run_full_scan
  todo,           \* the list the thread's current loop still has to walk
  results,        \* the result dict the thread's call is building / returned
  emitted,        \* the events the thread's current call has passed to _notify
  raisedIn,       \* the stages of the thread's current call that raised
  stopCalled,     \* stop_task() was called since the thread's run claimed the
                  \* slot: "no"; "other" (before its loops); "loop" (while it
                  \* was processing an item of a loop); "boundary" (and it has
                  \* since finished that item)
  stopSet,        \* ... stop_task() wrote is_running = False, likewise
  calls,          \* calls made so far
  \* One iteration of run_batch_analysis's loop, statement by statement:
  project,        \* the row as read into the pending list (a snapshot)
  row,            \* the row of the projects table
  estep,          \* the statement the iteration is at
  analysis,       \* the local "analysis"
  shot,           \* the local "screenshot_path"
  inflight,       \* the field whose value is generated and not yet written
  produced,       \* the fields for which this iteration generated a value
  made,           \* the collaborator calls this iteration has made
  \* run_category_scan:
  scan,           \* what each thread's last run_category_scan call has done
  \* CrawlerAgent.search_by_keywords / search_remote:
  fetch,          \* the call of the search source that is being executed
  \* run_scheduled_scan and start_auto_analysis_scheduler:
  sched,          \* the clock and the locals of the two scheduler loops
  \* server.py: the live event stream
  log_queue,      \* log_queue: the events put and not yet taken
  streams,        \* for each client of /api/logs: connected, events received
  notified,       \* the events passed to _notify so far
  callbacks,      \* MasterAgent.callbacks: the registered callbacks, in order
  \* run_news_scan statement by statement, and the news_sources table:
  news_sources,   \* the urls of the rows of the news_sources table
  news            \* for each thread: the locals of its run_news_scan call

orchVars == <<is_running, current_task, progress, catalog, pc, nested, todo,
              results, emitted, raisedIn, stopCalled, stopSet, calls>>
entryVars == <<project, row, estep, analysis, shot, inflight, produced, made>>
catVars == <<scan>>
fetchVars == <<fetch>>
schedVars == <<sched>>
logVars == <<log_queue, streams, notified, callbacks>>
newsVars == <<news_sources, news>>
auxVars == <<fetchVars, schedVars, logVars, newsVars>>
vars == <<is_running, current_task, progress, catalog, pc, nested, todo,
          results, emitted, raisedIn, stopCalled, stopSet, calls,
          project, row, estep, analysis, shot, inflight, produced, made, scan,
          fetch, sched, log_queue, streams, notified, callbacks,
          news_sources, news>>


\* ------------------------------------------------------------ helpers

\* self.progress = {"total": ..., "done": ..., "current": ...}; the label
\* "current" is display text and is not modelled.
Progress(total, done) == [total |-> total, done |-> done]

\* self._notify(message, level): the callbacks receive the event.  An event
\* is recorded by its level (kind names the message); emitted keeps the
\* levels "warning" and "error" a call has emitted.
Event(kind, level) == level
Recorded == {"warning", "error"}
Notify(t, evs) == [emitted EXCEPT ![t] = @ \cup (evs \cap Recorded)]

\* A result dict, by the keys it carries.
NoResult == [kind |-> "none", error |-> FALSE]
Result(kind, err) == [kind |-> kind, error |-> err]

\* Ascending sequence of the members of a set of identifiers.
RECURSIVE SeqOf(_)
SeqOf(S) == IF S = {} THEN <<>>
            ELSE LET m == CHOOSE x \in S : \A y \in S : x <= y
                 IN <<m>> \o SeqOf(S \ {m})

\* An upsert that replaces the whole row: the AI fields of an existing row
\* become null again.
upsert_replaces_row(cat, S, c) ==
  [i \in Ids |-> IF i \in S THEN Entry(c, "none") ELSE cat[i]]

\* Database.upsert_project for each project of a fetched list: the fetch
\* fields (here the category) are written, the AI fields are not in the
\* upserted row and keep their value; a new row has them null.
upsert_project(cat, S, c) ==
  [i \in Ids |-> IF i \in S
                 THEN (IF cat[i] = Absent THEN Entry(c, "none")
                       ELSE Entry(c, cat[i].ai))
                 ELSE cat[i]]

\* Database.get_projects_needing_analysis: first the rows whose ai_summary
\* is null, then the rows with a summary whose ai_model_name is "not ilike
\* %120b%"; a null ai_model_name does not satisfy that filter.
get_projects_needing_analysis(cat) ==
  SeqOf({i \in Ids : cat[i] # Absent /\ cat[i].ai = "none"}) \o
  SeqOf({i \in Ids : cat[i] # Absent /\ cat[i].ai = "other"})

\* Database.get_all_categories_summary: the categories that have rows.
get_all_categories_summary(cat) ==
  {cat[i].category : i \in {j \in Ids : cat[j] # Absent}}

\* Database.update_project_analysis: an update of the row, if it exists.
update_project_analysis(cat, i, a) ==
  IF cat[i] = Absent THEN cat ELSE [cat EXCEPT ![i].ai = a]

\* A thread is inside a full scan (batch analysis) that has claimed the slot
\* (written is_running = True) and has not yet run its finally block.
FullScanPcs == {"fs_task", "ns_claim", "ns_task", "ns_crawl", "ns_fin1", "ns_fin2",
                "fs_init", "fs_cat", "fs_cat_inc", "fs_pending", "fs_entry",
                "fs_entry_inc", "fs_archive", "fs_fin1"}
BatchPcs == {"ba_task", "ba_init", "ba_loop", "ba_entry", "ba_inc", "ba_fin1"}
NewsPcs == {"ns_claim", "ns_task", "ns_crawl", "ns_fin1", "ns_fin2"}
InFullScan(t) == pc[t] \in FullScanPcs /\ (pc[t] \in NewsPcs => nested[t])
InBatch(t) == pc[t] \in BatchPcs
Active(t) == InFullScan(t) \/ InBatch(t)

\* The thread is inside run_full_scan, run_batch_analysis or run_news_scan.
InRun(t) == pc[t] \notin {"idle", "st_set"}

\* The bookkeeping of a call that starts: its result, events and raised
\* stages are empty.
StartCall(t, p, n, r) ==
  /\ calls < MaxCalls
  /\ calls' = calls + 1
  /\ pc' = [pc EXCEPT ![t] = p]
  /\ nested' = [nested EXCEPT ![t] = n]
  /\ results' = [results EXCEPT ![t] = r]
  /\ emitted' = [emitted EXCEPT ![t] = {}]
  /\ raisedIn' = [raisedIn EXCEPT ![t] = {}]

\* A run that starts has seen no stop_task() yet.
NoStopYet(t) ==
  /\ stopCalled' = [stopCalled EXCEPT ![t] = "no"]
  /\ stopSet' = [stopSet EXCEPT ![t] = "no"]

Goto(t, p) == pc' = [pc EXCEPT ![t] = p]

\* The run finishes an item of a loop: a stop that came during the item now
\* lies before an iteration boundary.
ItemDone(t) ==
  /\ stopCalled' = [stopCalled EXCEPT ![t] = IF @ = "loop" THEN "boundary" ELSE @]
  /\ stopSet' = [stopSet EXCEPT ![t] = IF @ = "loop" THEN "boundary" ELSE @]

\* The return of a run to its caller: the thread is idle again and holds the
\* returned dict; the record of the call (its events, the stages that
\* raised, the stops it has seen) ends with the call.
Return(t) ==
  /\ pc' = [pc EXCEPT ![t] = "idle"]
  /\ emitted' = [emitted EXCEPT ![t] = {}]
  /\ raisedIn' = [raisedIn EXCEPT ![t] = {}]
  /\ stopCalled' = [stopCalled EXCEPT ![t] = "no"]
  /\ stopSet' = [stopSet EXCEPT ![t] = "no"]

\* -------------------------------------------------------------- Init

\* The orchestrator after MasterAgent.__init__.
OrchInit ==
  /\ is_running = FALSE
  /\ current_task = None
  /\ progress = Progress(0, 0)
  /\ catalog \in InitCatalogs
  /\ pc = [t \in Threads |-> "idle"]
  /\ nested = [t \in Threads |-> FALSE]
  /\ todo = [t \in Threads |-> <<>>]
  /\ results = [t \in Threads |-> NoResult]
  /\ emitted = [t \in Threads |-> {}]
  /\ raisedIn = [t \in Threads |-> {}]
  /\ stopCalled = [t \in Threads |-> "no"]
  /\ stopSet = [t \in Threads |-> "no"]
  /\ calls = 0

\* No iteration of the batch loop is looked at.
NoRow == [summary |-> "null", model |-> "null", rag |-> "null",
          screenshot |-> "null", visual |-> "null", tutorial |-> "null",
          last_analyzed |-> "null", description |-> "null"]
NoAnalysis == [isdict |-> TRUE, keys |-> {}, summary |-> "null", difficulty |-> 0]
EntryIdle ==
  /\ project = NoRow
  /\ row = NoRow
  /\ estep = "idle"
  /\ analysis = NoAnalysis
  /\ shot = "null"
  /\ inflight = "none"
  /\ produced = {}
  /\ made = {}

\* No run_category_scan call has been made: no category argument, no event
\* passed to _notify, no fetch, no upsert, nothing returned.  "gate" is
\* the value self.is_running had when the call was made; the method does
\* not read it.
NoScan == [category |-> None, events |-> <<>>, fetches |-> 0, fetched |-> <<>>,
           upserted |-> <<>>, count |-> None, gate |-> FALSE]
ScanIdle == scan = [t \in Threads |-> NoScan]

\* No call of the search source is being executed.
\* "responses" are the responses the call has received (search_remote: the
\* last one), "requests" their number, "slept" the waits it has made.
\* For crawl_external_page "links" is the number of links read, "seen_repos"
\* the set of that name, "skips" the reasons links were passed over and
\* "error" why the call gave up.
NoFetch == [fn |-> None, category |-> None, limit |-> 0, wants_tutorial |-> FALSE,
            token |-> FALSE, step |-> "idle", page |-> 0, requests |-> 0,
            responses |-> <<>>, slept |-> <<>>, projects |-> <<>>, outcome |-> None,
            links |-> 0, seen_repos |-> {}, skips |-> {}, error |-> None]
FetchIdle == fetch = NoFetch

\* The scheduler loops have not started; no events, no client.
Clients == 1..NClients
\* "day" is the calendar day of the last clock reading, "invoked" the
\* number of times the daily loop has reached master.run_full_scan() on each
\* day, "skipped" that its last iteration found last_run_date == today_str,
\* "idle_then" whether no run was executing when the backlog loop's
\* iteration read self.is_running as False.  "client" is whether
\* Database.__init__ has a Supabase client (database.py 15-20), "absorbed"
\* that an iteration of the daily loop has ended in its except block; a
\* step "dead" is a loop whose thread has ended.
NoSched == [day |-> 1, today_str |-> 0, last_run_date |-> 0, skipped |-> FALSE,
            dstep |-> "off", bstep |-> "off", idle_then |-> TRUE,
            invoked |-> [d \in 1..MaxDays |-> 0],
            client |-> TRUE, absorbed |-> FALSE]
SchedIdle == sched = NoSched
LogIdle ==
  /\ log_queue = <<>>
  /\ streams = [c \in Clients |-> [connected |-> FALSE, received |-> <<>>]]
  /\ notified = <<>>
  /\ callbacks = <<"log_callback">>
\* config.py 16-23: DISCOVERY_URLS, as the numbers of its urls.
DISCOVERY_URLS == [i \in 1..NumDiscoveryUrls |-> i]
\* The urls a news source can have: those of DISCOVERY_URLS and one more.
Urls == 1..(NumDiscoveryUrls + 1)
\* No run_news_scan call has been made by the thread.  "stored" is the
\* content of the news_sources table when the loop over the sources began,
\* "crawled" the urls passed to crawl_external_page, "inserted" the ids
\* upserted while absent from the catalog and "updated" those upserted
\* while present, "reported" the total_found of the returned results.
NoNews == [step |-> "idle", urls |-> <<>>, stored |-> {}, crawled |-> <<>>,
           projects |-> <<>>, source_count |-> 0, total_found |-> 0,
           inserted |-> {}, updated |-> {},
           result |-> None, reported |-> 0]
\* master.py 30-45: _ensure_news_sources has loaded DISCOVERY_URLS into the
\* empty table.
NewsIdle ==
  /\ news_sources = {DISCOVERY_URLS[i] : i \in 1..NumDiscoveryUrls}
  /\ news = [t \in Threads |-> NoNews]
AuxIdle == FetchIdle /\ SchedIdle /\ LogIdle /\ NewsIdle

Init == OrchInit /\ EntryIdle /\ ScanIdle /\ AuxIdle

\* ------------------------------------------------------ run_full_scan

\* master.py 83-84: "if self.is_running: return {error: Scan already running}".
\* The return is before the try, so no finally runs.
run_full_scan_check(t) ==
  /\ pc[t] = "idle"
  /\ IF is_running
     THEN StartCall(t, "idle", FALSE, Result("busy", TRUE))
     ELSE StartCall(t, "fs_claim", FALSE, NoResult)
  /\ NoStopYet(t)
  /\ UNCHANGED <<is_running, current_task, progress, catalog, todo>>
  /\ UNCHANGED <<entryVars, catVars, auxVars>>

\* master.py 86: self.is_running = True
run_full_scan_claim(t) ==
  /\ pc[t] = "fs_claim"
  /\ is_running' = TRUE
  /\ Goto(t, "fs_task")
  /\ UNCHANGED <<current_task, progress, catalog, nested, todo, results,
                 emitted, raisedIn, stopCalled, stopSet, calls>>
  /\ UNCHANGED <<entryVars, catVars, auxVars>>

\* master.py 87-92: self.current_task = "full_scan"; then, inside the try,
\* the call self.run_news_scan().
run_full_scan_task(t) ==
  /\ pc[t] = "fs_task"
  /\ current_task' = "full_scan"
  /\ Goto(t, "ns_claim")
  /\ nested' = [nested EXCEPT ![t] = TRUE]
  /\ UNCHANGED <<is_running, progress, catalog, todo, results, emitted,
                 raisedIn, stopCalled, stopSet, calls>>
  /\ UNCHANGED <<entryVars, catVars, auxVars>>

\* The except block of run_full_scan (master.py 154-156): an error event,
\* results["error"], then the finally block.
FullScanRaise(t, stage, evs) ==
  /\ raisedIn' = [raisedIn EXCEPT ![t] = @ \cup {stage}]
  /\ emitted' = Notify(t, evs \cup {Event("scan_error", "error")})
  /\ results' = [results EXCEPT ![t].error = TRUE]
  /\ Goto(t, "fs_fin1")

\* master.py 95-107: the start event, self.progress = {...}, the category
\* counts and the sort.  get_all_categories_summary returns {category: int};
\* line 104 calls .get('count', 0) on that int for every configured category
\* that has rows, which raises AttributeError.  With no such category every
\* count is 0 and the stable sort keeps the order of CATEGORIES.
run_full_scan_init(t) ==
  /\ pc[t] = "fs_init"
  /\ progress' = Progress(Len(CategoryOrder), 0)
  /\ IF get_all_categories_summary(catalog) \cap CATEGORIES # {}
     THEN /\ FullScanRaise(t, "crawl", {Event("scan_start", "info")})
          /\ UNCHANGED todo
     ELSE /\ emitted' = Notify(t, {Event("scan_start", "info")})
          /\ todo' = [todo EXCEPT ![t] = CategoryOrder]
          /\ Goto(t, "fs_cat")
          /\ UNCHANGED <<raisedIn, results>>
  /\ UNCHANGED <<is_running, current_task, catalog, nested, stopCalled, stopSet, calls>>
  /\ UNCHANGED <<entryVars, catVars, auxVars>>

\* master.py 109-121: one category: the fetch (the crawler returns a list,
\* [] on any failure) and the upsert of each project, which may raise.
run_full_scan_category(t) ==
  /\ pc[t] = "fs_cat"
  /\ \E S \in SearchResults, ok \in BOOLEAN :
       IF ok
       THEN /\ catalog' = upsert_project(catalog, S, Head(todo[t]))
            /\ emitted' = Notify(t, {Event("scanning", "info")})
            /\ Goto(t, "fs_cat_inc")
            /\ UNCHANGED <<raisedIn, results>>
       ELSE /\ S # {}
            /\ \E D \in SUBSET S :
                 /\ D # S
                 /\ catalog' = upsert_project(catalog, D, Head(todo[t]))
            /\ FullScanRaise(t, "crawl", {Event("scanning", "info")})
  /\ UNCHANGED <<is_running, current_task, progress, nested, todo, stopCalled,
                 stopSet, calls>>
  /\ UNCHANGED <<entryVars, catVars, auxVars>>

\* A category loop that goes on to the analysis stage after its first
\* category, whatever is left of the list.
category_done_leaves_loop(t) ==
  /\ pc[t] = "fs_cat_inc"
  /\ progress' = [progress EXCEPT !.done = @ + 1]
  /\ todo' = [todo EXCEPT ![t] = Tail(@)]
  /\ emitted' = Notify(t, {Event("found", "success")})
  /\ Goto(t, "fs_pending")
  /\ ItemDone(t)
  /\ UNCHANGED <<is_running, current_task, catalog, nested, results, raisedIn, calls>>
  /\ UNCHANGED <<entryVars, catVars, auxVars>>

\* master.py 123-128: results["crawl"][cat_id], self.progress["done"] += 1;
\* after the last category, the event that starts the analysis.
run_full_scan_category_done(t) ==
  /\ pc[t] = "fs_cat_inc"
  /\ progress' = [progress EXCEPT !.done = @ + 1]
  /\ todo' = [todo EXCEPT ![t] = Tail(@)]
  /\ emitted' = Notify(t, {Event("found", "success")})
  /\ Goto(t, IF Tail(todo[t]) = <<>> THEN "fs_pending" ELSE "fs_cat")
  /\ ItemDone(t)
  /\ UNCHANGED <<is_running, current_task, catalog, nested, results, raisedIn, calls>>
  /\ UNCHANGED <<entryVars, catVars, auxVars>>

\* master.py 129-130: pending = get_projects_needing_analysis(limit=50),
\* which may raise; self.progress = {...}.  With nothing pending the loop of
\* lines 132-147 is skipped.
run_full_scan_pending(t) ==
  /\ pc[t] = "fs_pending"
  /\ \E ok \in BOOLEAN :
       IF ok
       THEN /\ todo' = [todo EXCEPT ![t] = get_projects_needing_analysis(catalog)]
            /\ progress' = Progress(Len(get_projects_needing_analysis(catalog)), 0)
            /\ Goto(t, IF get_projects_needing_analysis(catalog) = <<>>
                       THEN "fs_archive" ELSE "fs_entry")
            /\ UNCHANGED <<raisedIn, results, emitted>>
       ELSE /\ FullScanRaise(t, "analyze", {})
            /\ UNCHANGED <<todo, progress>>
  /\ UNCHANGED <<is_running, current_task, catalog, nested, stopCalled, stopSet, calls>>
  /\ UNCHANGED <<entryVars, catVars, auxVars>>

\* master.py 132-140: one pending project: readme, analyze_project and
\* update_ai_analysis, which may raise.
run_full_scan_entry(t) ==
  /\ pc[t] = "fs_entry"
  /\ \E a \in AnalysisResults \cup {"raise"} :
       IF a # "raise"
       THEN /\ catalog' = update_project_analysis(catalog, Head(todo[t]), a)
            /\ Goto(t, "fs_entry_inc")
            /\ UNCHANGED <<raisedIn, results, emitted>>
       ELSE /\ FullScanRaise(t, "analyze", {})
            /\ UNCHANGED catalog
  /\ UNCHANGED <<is_running, current_task, progress, nested, todo, stopCalled,
                 stopSet, calls>>
  /\ UNCHANGED <<entryVars, catVars, auxVars>>

\* master.py 142-149: results["analyze"] += 1, self.progress["done"] += 1.
run_full_scan_entry_done(t) ==
  /\ pc[t] = "fs_entry_inc"
  /\ progress' = [progress EXCEPT !.done = @ + 1]
  /\ todo' = [todo EXCEPT ![t] = Tail(@)]
  /\ emitted' = Notify(t, {Event("analyzed", "success")})
  /\ Goto(t, IF Tail(todo[t]) = <<>> THEN "fs_archive" ELSE "fs_entry")
  /\ ItemDone(t)
  /\ UNCHANGED <<is_running, current_task, catalog, nested, results, raisedIn, calls>>
  /\ UNCHANGED <<entryVars, catVars, auxVars>>

\* master.py 152, 163-202: archive_data.  os.makedirs (line 170) is outside
\* its try and raises into run_full_scan's except; a failure of the export
\* itself is caught by archive_data (200-202), which emits an error event.
archive_data(t) ==
  /\ pc[t] = "fs_archive"
  /\ \E o \in {"ok", "export_failed", "mkdir_failed"} :
       IF o = "mkdir_failed"
       THEN FullScanRaise(t, "archive", {})
       ELSE /\ Goto(t, "fs_fin1")
            /\ raisedIn' = [raisedIn EXCEPT ![t] = IF o = "ok" THEN @ ELSE @ \cup {"archive"}]
            /\ emitted' = Notify(t, IF o = "ok" THEN {Event("archived", "success")}
                                    ELSE {Event("archive_error", "error")})
            /\ UNCHANGED results
  /\ UNCHANGED <<is_running, current_task, progress, catalog, nested, todo,
                 stopCalled, stopSet, calls>>
  /\ UNCHANGED <<entryVars, catVars, auxVars>>

\* master.py 157-158: finally: self.is_running = False
run_full_scan_release(t) ==
  /\ pc[t] = "fs_fin1"
  /\ is_running' = FALSE
  /\ Goto(t, "fs_fin2")
  /\ UNCHANGED <<current_task, progress, catalog, nested, todo, results,
                 emitted, raisedIn, stopCalled, stopSet, calls>>
  /\ UNCHANGED <<entryVars, catVars, auxVars>>

\* master.py 159-161: self.current_task = None; return results
run_full_scan_return(t) ==
  /\ pc[t] = "fs_fin2"
  /\ current_task' = None
  /\ Return(t)
  /\ results' = [results EXCEPT ![t].kind = "full_scan"]
  /\ UNCHANGED <<is_running, progress, catalog, nested, todo, calls>>
  /\ UNCHANGED <<entryVars, catVars, auxVars>>

\* ------------------------------------------------------ run_news_scan

\* master.py 310-312: run_news_scan has no is_running check; its first
\* statement is self.is_running = True.  This is the direct call (the
\* /api/scan/news trigger thread); run_full_scan enters at the same place.
run_news_scan_call(t) ==
  /\ pc[t] = "idle"
  /\ StartCall(t, "ns_claim", FALSE, NoResult)
  /\ NoStopYet(t)
  /\ UNCHANGED <<is_running, current_task, progress, catalog, todo>>
  /\ UNCHANGED <<entryVars, catVars, auxVars>>

run_news_scan_claim(t) ==
  /\ pc[t] = "ns_claim"
  /\ is_running' = TRUE
  /\ Goto(t, "ns_task")
  /\ UNCHANGED <<current_task, progress, catalog, nested, todo, results,
                 emitted, raisedIn, stopCalled, stopSet, calls>>
  /\ UNCHANGED <<entryVars, catVars, auxVars>>

\* master.py 313-318: self.current_task = "news_scan"; the start event.
run_news_scan_task(t) ==
  /\ pc[t] = "ns_task"
  /\ current_task' = "news_scan"
  /\ todo' = [todo EXCEPT ![t] = [i \in 1..NumDiscoveryUrls |-> i]]
  /\ emitted' = Notify(t, {Event("news_start", "info")})
  /\ Goto(t, "ns_crawl")
  /\ UNCHANGED <<is_running, progress, catalog, nested, results, raisedIn,
                 stopCalled, stopSet, calls>>
  /\ UNCHANGED <<entryVars, catVars, auxVars>>

\* master.py 320-348: one discovery URL: crawl_external_page returns the
\* projects S ([] on failure); each one that db.get_project does not find is
\* upserted with category 'news'.  get_project and upsert_project may raise:
\* run_news_scan's own except emits an error event and returns {error: ...}.
run_news_scan_source(t) ==
  /\ pc[t] = "ns_crawl"
  /\ \E S \in CrawlResults, ok \in BOOLEAN :
       LET new == {i \in S : catalog[i] = Absent} IN
       IF ok
       THEN /\ catalog' = upsert_project(catalog, new, "news")
            /\ emitted' = Notify(t, {Event("crawling", "info")} \cup
                            (IF new = {} THEN {} ELSE {Event("found_new", "success")}))
            /\ todo' = [todo EXCEPT ![t] = Tail(@)]
            /\ Goto(t, IF Tail(todo[t]) = <<>> THEN "ns_fin1" ELSE "ns_crawl")
            /\ UNCHANGED <<raisedIn, results>>
       ELSE /\ S # {}
            /\ \E D \in SUBSET new : catalog' = upsert_project(catalog, D, "news")
            /\ emitted' = Notify(t, {Event("crawling", "info"), Event("news_error", "error")})
            /\ raisedIn' = [raisedIn EXCEPT ![t] = @ \cup {"discovery"}]
            /\ results' = [results EXCEPT ![t].error = IF nested[t] THEN @ ELSE TRUE]
            /\ Goto(t, "ns_fin1")
            /\ UNCHANGED todo
  /\ UNCHANGED <<is_running, current_task, progress, nested, stopCalled, stopSet, calls>>
  /\ UNCHANGED <<entryVars, catVars, auxVars>>

\* master.py 349-350: finally: self.is_running = False
run_news_scan_release(t) ==
  /\ pc[t] = "ns_fin1"
  /\ is_running' = FALSE
  /\ Goto(t, "ns_fin2")
  /\ UNCHANGED <<current_task, progress, catalog, nested, todo, results,
                 emitted, raisedIn, stopCalled, stopSet, calls>>
  /\ UNCHANGED <<entryVars, catVars, auxVars>>

\* master.py 351: self.current_task = None, and the return: to line 95 of
\* run_full_scan, which ignores the returned dict, or to the trigger.
run_news_scan_return(t) ==
  /\ pc[t] = "ns_fin2"
  /\ current_task' = None
  /\ IF nested[t]
     THEN /\ Goto(t, "fs_init")
          /\ UNCHANGED <<results, emitted, raisedIn, stopCalled, stopSet>>
     ELSE /\ Return(t)
          /\ results' = [results EXCEPT ![t].kind = "news_scan"]
  /\ nested' = [nested EXCEPT ![t] = FALSE]
  /\ UNCHANGED <<is_running, progress, catalog, todo, calls>>
  /\ UNCHANGED <<entryVars, catVars, auxVars>>

\* -------------------------------------------------- run_batch_analysis

\* master.py 206-207: "if self.is_running: return {error: Task already running}",
\* before the try.
run_batch_analysis_check(t) ==
  /\ pc[t] = "idle"
  /\ IF is_running
     THEN StartCall(t, "idle", FALSE, Result("busy", TRUE))
     ELSE StartCall(t, "ba_claim", FALSE, NoResult)
  /\ NoStopYet(t)
  /\ UNCHANGED <<is_running, current_task, progress, catalog, todo>>
  /\ UNCHANGED <<entryVars, catVars, auxVars>>

\* master.py 209: self.is_running = True
run_batch_analysis_claim(t) ==
  /\ pc[t] = "ba_claim"
  /\ is_running' = TRUE
  /\ Goto(t, "ba_task")
  /\ UNCHANGED <<current_task, progress, catalog, nested, todo, results,
                 emitted, raisedIn, stopCalled, stopSet, calls>>
  /\ UNCHANGED <<entryVars, catVars, auxVars>>

\* master.py 210: self.current_task = "batch_analysis"
run_batch_analysis_task(t) ==
  /\ pc[t] = "ba_task"
  /\ current_task' = "batch_analysis"
  /\ Goto(t, "ba_init")
  /\ UNCHANGED <<is_running, progress, catalog, nested, todo, results,
                 emitted, raisedIn, stopCalled, stopSet, calls>>
  /\ UNCHANGED <<entryVars, catVars, auxVars>>

\* The except block of run_batch_analysis (master.py 280-284): an error
\* event and the result {error: ...}; then the finally block.
BatchRaise(t, stage, evs) ==
  /\ raisedIn' = [raisedIn EXCEPT ![t] = @ \cup {stage}]
  /\ emitted' = Notify(t, evs \cup {Event("batch_error", "error")})
  /\ results' = [results EXCEPT ![t] = Result("batch_analysis", TRUE)]
  /\ Goto(t, "ba_fin1")

\* master.py 214-220: pending = get_projects_needing_analysis(limit=100),
\* which may raise; the start event; self.progress = {...}.
run_batch_analysis_init(t) ==
  /\ pc[t] = "ba_init"
  /\ \E ok \in BOOLEAN :
       IF ok
       THEN /\ todo' = [todo EXCEPT ![t] = get_projects_needing_analysis(catalog)]
            /\ progress' = Progress(Len(get_projects_needing_analysis(catalog)), 0)
            /\ emitted' = Notify(t, {Event("batch_start", "info")})
            /\ Goto(t, "ba_loop")
            /\ UNCHANGED <<raisedIn, results>>
       ELSE /\ BatchRaise(t, "setup", {})
            /\ UNCHANGED <<todo, progress>>
  /\ UNCHANGED <<is_running, current_task, catalog, nested, stopCalled, stopSet, calls>>
  /\ UNCHANGED <<entryVars, catVars, auxVars>>

\* master.py 222-227 and 277-278: the loop head.  With no project left, or
\* with self.is_running read as False ("if not self.is_running: break"), the
\* loop ends and the batch returns {status: completed}; otherwise the next
\* project starts.
run_batch_analysis_loop(t) ==
  /\ pc[t] = "ba_loop"
  /\ IF todo[t] = <<>> \/ ~is_running
     THEN /\ emitted' = Notify(t, {Event("batch_completed", "success")})
          /\ results' = [results EXCEPT ![t] = Result("batch_analysis", FALSE)]
          /\ Goto(t, "ba_fin1")
     ELSE /\ emitted' = Notify(t, {Event("analyzing", "info")})
          /\ Goto(t, "ba_entry")
          /\ UNCHANGED results
  /\ UNCHANGED <<is_running, current_task, progress, catalog, nested, todo,
                 raisedIn, stopCalled, stopSet, calls>>
  /\ UNCHANGED <<entryVars, catVars, auxVars>>

\* master.py 229-268: the enrichment of one project: readme, analysis, dense
\* summary, screenshot, vision, tutorial, each written to the catalog.  The
\* loop body has no try of its own: a call that raises (a catalog update, or
\* an analysis record that is not a dict) leaves through the except block of
\* the whole method.
run_batch_analysis_entry(t) ==
  /\ pc[t] = "ba_entry"
  /\ \E a \in AnalysisResults \cup {"raise"} :
       IF a # "raise"
       THEN /\ catalog' = update_project_analysis(catalog, Head(todo[t]), a)
            /\ emitted' = Notify(t, {Event("tutorial", "info")})
            /\ Goto(t, "ba_inc")
            /\ UNCHANGED <<raisedIn, results>>
       ELSE /\ BatchRaise(t, "entry", {})
            /\ UNCHANGED catalog
  /\ UNCHANGED <<is_running, current_task, progress, nested, todo, stopCalled,
                 stopSet, calls>>
  /\ UNCHANGED <<entryVars, catVars, auxVars>>

\* master.py 270-275: analyzed_count += 1; self.progress["done"] += 1.
run_batch_analysis_entry_done(t) ==
  /\ pc[t] = "ba_inc"
  /\ progress' = [progress EXCEPT !.done = @ + 1]
  /\ todo' = [todo EXCEPT ![t] = Tail(@)]
  /\ emitted' = Notify(t, {Event("entry_done", "success")})
  /\ Goto(t, "ba_loop")
  /\ ItemDone(t)
  /\ UNCHANGED <<is_running, current_task, catalog, nested, results, raisedIn, calls>>
  /\ UNCHANGED <<entryVars, catVars, auxVars>>

\* master.py 285-286: finally: self.is_running = False
run_batch_analysis_release(t) ==
  /\ pc[t] = "ba_fin1"
  /\ is_running' = FALSE
  /\ Goto(t, "ba_fin2")
  /\ UNCHANGED <<current_task, progress, catalog, nested, todo, results,
                 emitted, raisedIn, stopCalled, stopSet, calls>>
  /\ UNCHANGED <<entryVars, catVars, auxVars>>

\* master.py 287: self.current_task = None, and the return.
run_batch_analysis_return(t) ==
  /\ pc[t] = "ba_fin2"
  /\ current_task' = None
  /\ Return(t)
  /\ UNCHANGED <<is_running, progress, catalog, nested, todo, results, calls>>
  /\ UNCHANGED <<entryVars, catVars, auxVars>>

\* ---------------------------------------------------------- stop_task

\* The record of a stop for a run that has claimed the slot: whether the
\* stop came while the run was inside one of its loops.
LoopPcs == {"fs_cat", "fs_cat_inc", "fs_entry", "fs_entry_inc", "ba_entry", "ba_inc"}
InLoop(u) == pc[u] \in LoopPcs
StopSeen(h, u) ==
  IF ~Active(u) \/ h[u] = "boundary" THEN h[u]
  ELSE IF InLoop(u) THEN "loop"
  ELSE IF h[u] = "no" THEN "other" ELSE h[u]

\* master.py 75, 79: "if self.is_running:" ... else return {status: not_running}.
stop_task_check(t) ==
  /\ pc[t] = "idle"
  /\ StartCall(t, IF is_running THEN "st_set" ELSE "idle", FALSE,
               IF is_running THEN NoResult ELSE Result("not_running", FALSE))
  /\ stopCalled' = [u \in Threads |-> StopSeen(stopCalled, u)]
  /\ UNCHANGED <<is_running, current_task, progress, catalog, todo, stopSet>>
  /\ UNCHANGED <<entryVars, catVars, auxVars>>

\* master.py 76-78: self.is_running = False; the warning event;
\* return {status: stopping}.
stop_task_set(t) ==
  /\ pc[t] = "st_set"
  /\ is_running' = FALSE
  /\ emitted' = Notify(t, {Event("stopping", "warning")})
  /\ results' = [results EXCEPT ![t] = Result("stopping", FALSE)]
  /\ stopSet' = [u \in Threads |-> StopSeen(stopSet, u)]
  /\ Goto(t, "idle")
  /\ UNCHANGED <<current_task, progress, catalog, nested, todo, raisedIn,
                 stopCalled, calls>>
  /\ UNCHANGED <<entryVars, catVars, auxVars>>

\* ------------------------------------------------------ specification

Next ==
  \E t \in Threads :
    \/ run_full_scan_check(t)
    \/ run_full_scan_claim(t)
    \/ run_full_scan_task(t)
    \/ run_full_scan_init(t)
    \/ run_full_scan_category(t)
    \/ run_full_scan_category_done(t)
    \/ run_full_scan_pending(t)
    \/ run_full_scan_entry(t)
    \/ run_full_scan_entry_done(t)
    \/ archive_data(t)
    \/ run_full_scan_release(t)
    \/ run_full_scan_return(t)
    \/ run_news_scan_call(t)
    \/ run_news_scan_claim(t)
    \/ run_news_scan_task(t)
    \/ run_news_scan_source(t)
    \/ run_news_scan_release(t)
    \/ run_news_scan_return(t)
    \/ run_batch_analysis_check(t)
    \/ run_batch_analysis_claim(t)
    \/ run_batch_analysis_task(t)
    \/ run_batch_analysis_init(t)
    \/ run_batch_analysis_loop(t)
    \/ run_batch_analysis_entry(t)
    \/ run_batch_analysis_entry_done(t)
    \/ run_batch_analysis_release(t)
    \/ run_batch_analysis_return(t)
    \/ stop_task_check(t)
    \/ stop_task_set(t)

Spec == Init /\ [][Next]_vars

\* One thread that runs full scans and one that calls stop_task.
Runner == {t \in Threads : t = NThreads - 1}
Stopper == {t \in Threads : t = NThreads}
NextScan ==
  \/ \E t \in Runner :
       \/ run_full_scan_check(t)
       \/ run_full_scan_claim(t)
       \/ run_full_scan_task(t)
       \/ run_news_scan_claim(t)
       \/ run_news_scan_task(t)
       \/ run_news_scan_source(t)
       \/ run_news_scan_release(t)
       \/ run_news_scan_return(t)
       \/ run_full_scan_init(t)
       \/ run_full_scan_category(t)
       \/ run_full_scan_category_done(t)
       \/ run_full_scan_pending(t)
       \/ run_full_scan_entry(t)
       \/ run_full_scan_entry_done(t)
       \/ archive_data(t)
       \/ run_full_scan_release(t)
       \/ run_full_scan_return(t)
  \/ \E t \in Stopper :
       \/ stop_task_check(t)
       \/ stop_task_set(t)

ScanSpec == Init /\ [][NextScan]_vars

\* ------------------------------------- one iteration of the batch loop
\* The body of run_batch_analysis's loop (master.py 229-268) for one pending
\* project, statement by statement.  A field is "null", "old" (the value the
\* row had before this iteration) or "new" (a value this iteration wrote).

DefaultDifficulty == 3
AnalysisKeys == {"summary", "tech_stack", "use_cases", "difficulty", "quick_start"}
AnalysisRecord(d, k, sm, df) == [isdict |-> d, keys |-> k, summary |-> sm, difficulty |-> df]

\* What the text-generation collaborator can answer to analyze_project: no
\* client, an exception, text that is not JSON, JSON that is not an object,
\* a complete object, an object without most keys, a complete object whose
\* difficulty is out of range.
Responses == {"no_client", "exception", "text", "json_list", "json_full",
              "json_partial", "json_bad_difficulty"}

\* AnalyzerAgent._default_analysis: "summary" is project.get('description',
\* ...), which is None when the row's description is null.
_default_analysis(p) ==
  AnalysisRecord(TRUE, AnalysisKeys,
                 IF p.description = "null" THEN "null" ELSE "new",
                 DefaultDifficulty)

\* AnalyzerAgent.analyze_project: the default record without a client, on an
\* exception and on a JSONDecodeError; otherwise json.loads(content) as it
\* is, whatever its type and keys.
analyze_project(resp, p) ==
  CASE resp \in {"no_client", "exception", "text"} -> _default_analysis(p)
    [] resp = "json_list" -> AnalysisRecord(FALSE, {}, "null", 0)
    [] resp = "json_full" -> AnalysisRecord(TRUE, AnalysisKeys, "new", DefaultDifficulty)
    [] resp = "json_partial" -> AnalysisRecord(TRUE, {"tech_stack"}, "null", 0)
    [] resp = "json_bad_difficulty" ->
         AnalysisRecord(TRUE, AnalysisKeys, "new", 9)

\* AnalyzerAgent.generate_rag_summary: the stripped answer (which may be
\* empty), or on an exception project.get('description', '').
RagResponses == {"text", "empty", "exception"}
generate_rag_summary(resp, p) ==
  CASE resp = "text" -> "new"
    [] resp = "empty" -> "null"
    [] resp = "exception" -> IF p.description = "null" THEN "null" ELSE "new"

\* Database.update_project_analysis on the row: ai_summary =
\* analysis.get('summary'), ai_model_name = analysis.get('model_name') (the
\* record has no such key), last_analyzed = now.
update_project_analysis_row(r, a) ==
  [r EXCEPT !.summary = a.summary, !.model = "null", !.last_analyzed = "new"]
\* A dense summary that is kept for a write at the end of the pipeline.
rag_summary_deferred(r) == r
update_project_rag_summary(r) == [r EXCEPT !.rag = "new"]
update_project_screenshot(r) == [r EXCEPT !.screenshot = "new"]
update_project_visual_summary(r) == [r EXCEPT !.visual = "new"]
update_project_tutorial(r) == [r EXCEPT !.tutorial = "new"]

\* master.py 233: is_120b.
is_120b(p) == p.model = "120b"

\* The rows an iteration can be given.
Rows ==
  {[summary |-> sm, model |-> m, rag |-> r, screenshot |-> sc, visual |-> v,
    tutorial |-> tu, last_analyzed |-> (IF sm = "null" THEN "null" ELSE "old"),
    description |-> d] :
     sm \in {"null", "old"}, m \in {"null", "other", "120b"}, r \in {"null", "old"},
     sc \in {"null", "old"}, v \in {"null", "old"}, tu \in {"null", "old"},
     d \in {"null", "text"}}

InitEntry ==
  /\ OrchInit
  /\ project \in Rows
  /\ row = project
  /\ estep = "readme"
  /\ analysis = NoAnalysis
  /\ shot = "null"
  /\ inflight = "none"
  /\ produced = {}
  /\ made = {}
  /\ ScanIdle
  /\ AuxIdle

Call(c) == made' = made \cup {c}
Generated(f) == inflight' = f /\ produced' = produced \cup {f}

\* A write to the store: it succeeds, or raises and ends the iteration.
Written(f, r, next) ==
  /\ inflight = f
  /\ \E ok \in BOOLEAN :
       IF ok THEN /\ row' = r
                  /\ inflight' = "none"
                  /\ estep' = next
             ELSE /\ estep' = "raised_store"
                  /\ UNCHANGED <<row, inflight>>
  /\ UNCHANGED <<project, analysis, shot, produced, made>>

\* master.py 230: readme = self.crawler.get_readme(...), None on failure.
get_readme ==
  /\ estep = "readme"
  /\ Call("get_readme")
  /\ estep' = "analysis"
  /\ UNCHANGED <<project, row, analysis, shot, inflight, produced>>
  /\ UNCHANGED <<orchVars, catVars, auxVars>>

\* master.py 233-236, 238-239: the analysis, unless the snapshot is tagged 120b.
analysis_stage ==
  /\ estep = "analysis"
  /\ IF is_120b(project)
     THEN /\ analysis' = AnalysisRecord(TRUE, {"summary"}, project.summary, 0)
          /\ estep' = "rag"
          /\ UNCHANGED <<inflight, produced, made>>
     ELSE /\ \E resp \in Responses : analysis' = analyze_project(resp, project)
          /\ Call("analyze_project")
          /\ Generated("last_analyzed")
          /\ estep' = "analysis_write"
  /\ UNCHANGED <<project, row, shot>>
  /\ UNCHANGED <<orchVars, catVars, auxVars>>

\* master.py 237: self.db.update_project_analysis(project['id'], analysis);
\* analysis.get raises AttributeError when analysis is not a dict.
analysis_write ==
  /\ estep = "analysis_write"
  /\ IF analysis.isdict
     THEN Written("last_analyzed", update_project_analysis_row(row, analysis), "rag")
     ELSE /\ estep' = "raised_shape"
          /\ UNCHANGED <<project, row, analysis, shot, inflight, produced, made>>
  /\ UNCHANGED <<orchVars, catVars, auxVars>>

\* master.py 242-244: the dense summary, if missing or not 120b.
rag_stage ==
  /\ estep = "rag"
  /\ IF project.rag = "null" \/ ~is_120b(project)
     THEN /\ Call("generate_rag_summary")
          /\ \E resp \in RagResponses :
               IF generate_rag_summary(resp, project) = "null"
               THEN estep' = "screenshot" /\ UNCHANGED <<inflight, produced>>
               ELSE estep' = "rag_write" /\ Generated("rag")
     ELSE /\ estep' = "screenshot"
          /\ UNCHANGED <<inflight, produced, made>>
  /\ UNCHANGED <<project, row, analysis, shot>>
  /\ UNCHANGED <<orchVars, catVars, auxVars>>

\* master.py 245
rag_write ==
  /\ estep = "rag_write"
  /\ Written("rag", update_project_rag_summary(row), "screenshot")
  /\ UNCHANGED <<orchVars, catVars, auxVars>>

\* master.py 248-252: the screenshot, if the snapshot has none;
\* capture_screenshot returns a path or None.
screenshot_stage ==
  /\ estep = "screenshot"
  /\ IF project.screenshot = "null"
     THEN /\ Call("capture_screenshot")
          /\ \E path \in {"null", "new"} :
               /\ shot' = path
               /\ IF path = "null"
                  THEN estep' = "vision" /\ UNCHANGED <<inflight, produced>>
                  ELSE estep' = "screenshot_write" /\ Generated("screenshot")
     ELSE /\ shot' = project.screenshot
          /\ estep' = "vision"
          /\ UNCHANGED <<inflight, produced, made>>
  /\ UNCHANGED <<project, row, analysis>>
  /\ UNCHANGED <<orchVars, catVars, auxVars>>

\* master.py 253
screenshot_write ==
  /\ estep = "screenshot_write"
  /\ Written("screenshot", update_project_screenshot(row), "vision")
  /\ UNCHANGED <<orchVars, catVars, auxVars>>

\* master.py 256-259: the vision analysis whenever there is a screenshot.
vision_stage ==
  /\ estep = "vision"
  /\ IF shot # "null"
     THEN /\ Call("analyze_with_vision")
          /\ Generated("visual")
          /\ estep' = "vision_write"
     ELSE /\ estep' = "tutorial"
          /\ UNCHANGED <<inflight, produced, made>>
  /\ UNCHANGED <<project, row, analysis, shot>>
  /\ UNCHANGED <<orchVars, catVars, auxVars>>

\* master.py 261
vision_write ==
  /\ estep = "vision_write"
  /\ Written("visual", update_project_visual_summary(row), "tutorial")
  /\ UNCHANGED <<orchVars, catVars, auxVars>>

\* master.py 264-265: the tutorial, always.
tutorial_stage ==
  /\ estep = "tutorial"
  /\ Call("generate_tutorial")
  /\ Generated("tutorial")
  /\ estep' = "tutorial_write"
  /\ UNCHANGED <<project, row, analysis, shot>>
  /\ UNCHANGED <<orchVars, catVars, auxVars>>

\* master.py 268
tutorial_write ==
  /\ estep = "tutorial_write"
  /\ Written("tutorial", update_project_tutorial(row), "done")
  /\ UNCHANGED <<orchVars, catVars, auxVars>>

NextEntry ==
  \/ get_readme
  \/ analysis_stage
  \/ analysis_write
  \/ rag_stage
  \/ rag_write
  \/ screenshot_stage
  \/ screenshot_write
  \/ vision_stage
  \/ vision_write
  \/ tutorial_stage
  \/ tutorial_write

EntrySpec == InitEntry /\ [][NextEntry]_vars

\* -------------------------------------------------- run_category_scan

\* The category argument of a call: a configured category or another string.
CategoryArgs == CATEGORIES \cup {"unknown"}

\* The rows a store can hold when a category scan starts: rows no category
\* fetch of this configuration produced, in any state of their AI fields.
AiStates == {"none", "nomodel", "other", "120b"}
StoredCatalogs == [Ids -> {Absent} \cup {Entry("manual_scraped", a) : a \in AiStates}]

\* The call's own record: events passed to _notify (all levels, in order),
\* calls of the search source, identifiers passed to upsert_project.
ScanStart(t, c) ==
  scan' = [scan EXCEPT ![t] = [NoScan EXCEPT !.category = c, !.gate = is_running]]
ScanEvent(t, e) == [scan EXCEPT ![t].events = Append(@, e)]

\* A category scan behind the single-flight gate: rejected while another
\* run holds the slot.
category_scan_behind_gate(t) ==
  /\ pc[t] = "idle"
  /\ \E category \in CategoryArgs :
       IF category \notin CATEGORIES
       THEN /\ StartCall(t, "idle", FALSE, Result("unknown_category", TRUE))
            /\ ScanStart(t, category)
       ELSE IF is_running
       THEN /\ StartCall(t, "idle", FALSE, Result("busy", TRUE))
            /\ ScanStart(t, category)
       ELSE /\ StartCall(t, "cs_fetch", FALSE, NoResult)
            /\ scan' = [scan EXCEPT ![t] = [NoScan EXCEPT !.category = category,
                                                          !.events = <<Event("scanning", "info")>>]]
  /\ NoStopYet(t)
  /\ UNCHANGED <<is_running, current_task, progress, catalog, todo>>
  /\ UNCHANGED <<entryVars, auxVars>>

\* A membership check that comes after the start event.
check_after_start_event(t) ==
  /\ pc[t] = "idle"
  /\ \E category \in CategoryArgs :
       IF category \notin CATEGORIES
       THEN /\ StartCall(t, "idle", FALSE, Result("unknown_category", TRUE))
            /\ scan' = [scan EXCEPT ![t] = [NoScan EXCEPT !.category = category,
                                                          !.gate = is_running,
                                                          !.events = <<Event("scanning", "info")>>]]
       ELSE /\ StartCall(t, "cs_fetch", FALSE, NoResult)
            /\ scan' = [scan EXCEPT ![t] = [NoScan EXCEPT !.category = category,
                                                          !.gate = is_running,
                                                          !.events = <<Event("scanning", "info")>>]]
  /\ NoStopYet(t)
  /\ UNCHANGED <<is_running, current_task, progress, catalog, todo>>
  /\ UNCHANGED <<entryVars, auxVars>>

\* master.py 291-295: "if category not in CATEGORIES: return {error: Unknown
\* category: ...}"; otherwise the start event.  No read of is_running.
run_category_scan_check(t) ==
  /\ pc[t] = "idle"
  /\ \E category \in CategoryArgs :
       IF category \notin CATEGORIES
       THEN /\ StartCall(t, "idle", FALSE, Result("unknown_category", TRUE))
            /\ ScanStart(t, category)
       ELSE /\ StartCall(t, "cs_fetch", FALSE, NoResult)
            /\ scan' = [scan EXCEPT ![t] = [NoScan EXCEPT !.category = category,
                                                          !.gate = is_running,
                                                          !.events = <<Event("scanning", "info")>>]]
  /\ NoStopYet(t)
  /\ UNCHANGED <<is_running, current_task, progress, catalog, todo>>
  /\ UNCHANGED <<entryVars, auxVars>>

\* master.py 297-302: projects = self.crawler.search_by_keywords(keywords,
\* category), which catches its own request errors and returns what it has.
run_category_scan_fetch(t) ==
  /\ pc[t] = "cs_fetch"
  /\ \E S \in SearchResults :
       /\ todo' = [todo EXCEPT ![t] = SeqOf(S)]
       /\ scan' = [scan EXCEPT ![t].fetches = @ + 1, ![t].fetched = SeqOf(S)]
  /\ Goto(t, "cs_upsert")
  /\ UNCHANGED <<is_running, current_task, progress, catalog, nested, results,
                 emitted, raisedIn, stopCalled, stopSet, calls>>
  /\ UNCHANGED <<entryVars, auxVars>>

\* A loop that passes over a fetched project without storing it.
upsert_skips_entry(t) ==
  /\ pc[t] = "cs_upsert"
  /\ todo[t] # <<>>
  /\ todo' = [todo EXCEPT ![t] = Tail(@)]
  /\ UNCHANGED <<is_running, current_task, progress, catalog, pc, nested, results,
                 emitted, raisedIn, stopCalled, stopSet, calls, scan>>
  /\ UNCHANGED <<entryVars, auxVars>>

\* master.py 304-305: self.db.upsert_project(project) for the next project
\* of the list; a store error leaves the method as an exception (there is
\* no try in run_category_scan).
run_category_scan_upsert(t) ==
  /\ pc[t] = "cs_upsert"
  /\ todo[t] # <<>>
  /\ \E ok \in BOOLEAN :
       IF ok
       THEN /\ catalog' = upsert_project(catalog, {Head(todo[t])}, scan[t].category)
            /\ scan' = [scan EXCEPT ![t].upserted = Append(@, Head(todo[t]))]
            /\ todo' = [todo EXCEPT ![t] = Tail(@)]
            /\ UNCHANGED <<pc, results, raisedIn>>
       ELSE /\ raisedIn' = [raisedIn EXCEPT ![t] = @ \cup {"upsert"}]
            /\ results' = [results EXCEPT ![t] = Result("raised", TRUE)]
            /\ Goto(t, "idle")
            /\ UNCHANGED <<catalog, scan, todo>>
  /\ UNCHANGED <<is_running, current_task, progress, nested, emitted,
                 stopCalled, stopSet, calls>>
  /\ UNCHANGED <<entryVars, auxVars>>

\* master.py 307-308: the "Found n projects" event and the result
\* {category: ..., count: len(projects)}.
run_category_scan_return(t) ==
  /\ pc[t] = "cs_upsert"
  /\ todo[t] = <<>>
  /\ scan' = [ScanEvent(t, Event("found", "success"))
                EXCEPT ![t].count = Len(scan[t].fetched)]
  /\ results' = [results EXCEPT ![t] = Result("category", FALSE)]
  /\ Goto(t, "idle")
  /\ UNCHANGED <<is_running, current_task, progress, catalog, nested, todo,
                 emitted, raisedIn, stopCalled, stopSet, calls>>
  /\ UNCHANGED <<entryVars, auxVars>>

\* Category scans on one thread (POST /api/scan/<category>) while another
\* thread runs batch analyses (POST /api/analyze_all).
Scanner == {t \in Threads : t = NThreads - 1}
Analyst == {t \in Threads : t = NThreads}

InitCategory ==
  /\ is_running = FALSE
  /\ current_task = None
  /\ progress = Progress(0, 0)
  /\ catalog \in StoredCatalogs
  /\ pc = [t \in Threads |-> "idle"]
  /\ nested = [t \in Threads |-> FALSE]
  /\ todo = [t \in Threads |-> <<>>]
  /\ results = [t \in Threads |-> NoResult]
  /\ emitted = [t \in Threads |-> {}]
  /\ raisedIn = [t \in Threads |-> {}]
  /\ stopCalled = [t \in Threads |-> "no"]
  /\ stopSet = [t \in Threads |-> "no"]
  /\ calls = 0
  /\ EntryIdle
  /\ ScanIdle
  /\ AuxIdle

NextCategory ==
  \/ \E t \in Scanner :
       \/ run_category_scan_check(t)
       \/ run_category_scan_fetch(t)
       \/ run_category_scan_upsert(t)
       \/ run_category_scan_return(t)
  \/ \E t \in Analyst :
       \/ run_batch_analysis_check(t)
       \/ run_batch_analysis_claim(t)
       \/ run_batch_analysis_task(t)
       \/ run_batch_analysis_init(t)
       \/ run_batch_analysis_loop(t)
       \/ run_batch_analysis_entry(t)
       \/ run_batch_analysis_entry_done(t)
       \/ run_batch_analysis_release(t)
       \/ run_batch_analysis_return(t)

CategorySpec == InitCategory /\ [][NextCategory]_vars

\* ------------------------------------------------ the search source

\* crawler.py 89: the statuses treated as a quota signal; 91: the wait.
QuotaStatuses == {403, 429}
QuotaWait == 60
\* crawler.py 104: delay = 2 if GITHUB_TOKEN else 10.
Delay(token) == IF token THEN 2 ELSE 10
\* crawler.py 132: max_pages = 3; 177: time.sleep(1).
max_pages == 3
PageWait == 1

\* The items of a result page: a repository; a repository whose name or
\* description holds one of the exclude_keywords ("book"); an item that lacks
\* a key _parse_repo reads ("bad").
Item(i, k) == [id |-> i, kind |-> k]
Items == {Item(i, k) : i \in Ids, k \in {"repo", "book"}} \cup {Item(0, "bad")}
ItemLists == UNION {[1..n -> Items] : n \in 0..MaxItems}

\* What requests.get can give: a response with a status and a body (a JSON
\* object with a list of items, or a body that is not JSON), or an exception
\* (status 0).  Only a 200 response carries a body the code reads.
Response(st, json, body) == [status |-> st, json |-> json, body |-> body]
HttpResponses ==
  {Response(200, TRUE, b) : b \in ItemLists} \cup {Response(200, FALSE, <<>>)} \cup
  {Response(st, FALSE, <<>>) : st \in QuotaStatuses \cup {500, 0}}

\* CrawlerAgent._parse_repo(item, category), crawler.py 318-334.
_parse_repo(item, category) == [id |-> item.id, category |-> category]

\* response.raise_for_status(); response.json(); _parse_repo on each item:
\* the statement raises.
Raises(r) ==
  \/ r.status # 200
  \/ ~r.json
  \/ \E k \in 1..Len(r.body) : r.body[k].kind = "bad"

FetchReturn(value) ==
  fetch' = [fetch EXCEPT !.step = "returned", !.projects = value,
                         !.outcome = "returned"]

\* search_by_keywords(keywords, category): crawler.py 64-83, up to the try.
search_by_keywords_call ==
  /\ fetch.step \in {"idle", "returned"}
  /\ \E category \in CATEGORIES, token \in BOOLEAN :
       fetch' = [NoFetch EXCEPT !.fn = "search_by_keywords", !.category = category,
                                !.token = token, !.step = "request"]
  /\ UNCHANGED <<orchVars, entryVars, catVars, schedVars, logVars, newsVars>>

\* A fetcher that gives up after the quota signal without a second request.
quota_without_retry ==
  /\ fetch.step = "request"
  /\ \E r \in HttpResponses :
       IF r.status = 0 \/ r.status \in QuotaStatuses
       THEN fetch' = [fetch EXCEPT !.responses = Append(@, r), !.requests = @ + 1, !.step = "returned",
                                   !.outcome = "returned"]
       ELSE fetch' = [fetch EXCEPT !.responses = Append(@, r), !.requests = @ + 1, !.step = "parse"]
  /\ UNCHANGED <<orchVars, entryVars, catVars, schedVars, logVars, newsVars>>

\* crawler.py 86-91: the first request; an exception of requests.get goes to
\* the except clause (109-111: return []); on 403 or 429, time.sleep(60).
search_by_keywords_request ==
  /\ fetch.step = "request"
  /\ \E r \in HttpResponses :
       IF r.status = 0
       THEN fetch' = [fetch EXCEPT !.responses = Append(@, r), !.requests = @ + 1, !.step = "returned",
                                   !.outcome = "returned"]
       ELSE IF r.status \in QuotaStatuses
       THEN fetch' = [fetch EXCEPT !.responses = Append(@, r), !.requests = @ + 1, !.step = "retry",
                                   !.slept = Append(@, QuotaWait)]
       ELSE fetch' = [fetch EXCEPT !.responses = Append(@, r), !.requests = @ + 1, !.step = "parse"]
  /\ UNCHANGED <<orchVars, entryVars, catVars, schedVars, logVars, newsVars>>

\* crawler.py 92-93: the one retry.
search_by_keywords_retry ==
  /\ fetch.step = "retry"
  /\ \E r \in HttpResponses :
       IF r.status = 0
       THEN fetch' = [fetch EXCEPT !.responses = Append(@, r), !.requests = @ + 1, !.step = "returned",
                                   !.outcome = "returned"]
       ELSE fetch' = [fetch EXCEPT !.responses = Append(@, r), !.requests = @ + 1, !.step = "parse"]
  /\ UNCHANGED <<orchVars, entryVars, catVars, schedVars, logVars, newsVars>>

\* A fetcher that answers a retried request with an empty list.
retry_result_dropped ==
  /\ fetch.step = "parse"
  /\ LET r == fetch.responses[Len(fetch.responses)]
     IN IF Raises(r) \/ Len(fetch.responses) > 1
        THEN FetchReturn(<<>>)
        ELSE fetch' = [fetch EXCEPT !.step = "returned", !.outcome = "returned",
                                    !.projects = [k \in 1..Len(r.body) |->
                                                    _parse_repo(r.body[k], fetch.category)],
                                    !.slept = Append(@, Delay(fetch.token))]
  /\ UNCHANGED <<orchVars, entryVars, catVars, schedVars, logVars, newsVars>>

\* crawler.py 95-111: raise_for_status, json, one project per item, the
\* delay, return projects; any exception: return [].
search_by_keywords_parse ==
  /\ fetch.step = "parse"
  /\ LET r == fetch.responses[Len(fetch.responses)]
     IN IF Raises(r)
        THEN FetchReturn(<<>>)
        ELSE fetch' = [fetch EXCEPT !.step = "returned", !.outcome = "returned",
                                    !.projects = [k \in 1..Len(r.body) |->
                                                    _parse_repo(r.body[k], fetch.category)],
                                    !.slept = Append(@, Delay(fetch.token))]
  /\ UNCHANGED <<orchVars, entryVars, catVars, schedVars, logVars, newsVars>>

\* search_remote(query, limit): crawler.py 113-136, up to the loop.
\* user_wants_tutorial is computed from the query.
search_remote_call ==
  /\ fetch.step \in {"idle", "returned"}
  /\ \E limit \in 0..MaxLimit, wants \in BOOLEAN :
       fetch' = [NoFetch EXCEPT !.fn = "search_remote", !.category = "remote_search",
                                !.limit = limit, !.wants_tutorial = wants,
                                !.page = 1, !.step = "loop"]
  /\ UNCHANGED <<orchVars, entryVars, catVars, schedVars, logVars, newsVars>>

\* The loop over the items without the check for an identifier already in
\* the list.
AddItemsUnchecked(projects, items, limit, wants) ==
  IF items = <<>> \/ Len(projects) >= limit
  THEN [projects |-> projects, raised |-> FALSE]
  ELSE [projects |-> projects \o [k \in 1..Len(items) |-> _parse_repo(items[k], "remote_search")],
        raised |-> FALSE]

\* crawler.py 156-174: the loop over the items of a page.  An item that
\* lacks a key raises out of the loop; what was appended stays.
RECURSIVE AddItems(_, _, _, _)
AddItems(projects, items, limit, wants) ==
  IF items = <<>> \/ Len(projects) >= limit
  THEN [projects |-> projects, raised |-> FALSE]
  ELSE LET item == Head(items)
       IN IF item.kind = "bad"
          THEN [projects |-> projects, raised |-> TRUE]
          ELSE IF \/ item.kind = "book" /\ ~wants
                  \/ \E k \in 1..Len(projects) : projects[k].id = item.id
          THEN AddItems(projects, Tail(items), limit, wants)
          ELSE AddItems(Append(projects, _parse_repo(item, "remote_search")),
                        Tail(items), limit, wants)

LoopCondition == Len(fetch.projects) < fetch.limit /\ fetch.page <= max_pages

\* A loop that goes on to the next page after an empty page.
page_loop_ignores_empty ==
  /\ fetch.step = "loop"
  /\ LoopCondition
  /\ \E r \in HttpResponses :
       fetch' = [fetch EXCEPT !.responses = <<r>>, !.requests = @ + 1,
                              !.page = @ + 1]
  /\ UNCHANGED <<orchVars, entryVars, catVars, schedVars, logVars, newsVars>>

\* crawler.py 138-181: one iteration of "while len(projects) < limit and
\* page <= max_pages": the request; break on a quota signal, on an empty
\* page and on any exception; otherwise the items, page += 1, time.sleep(1).
search_remote_page ==
  /\ fetch.step = "loop"
  /\ LoopCondition
  /\ \E r \in HttpResponses :
       IF r.status # 200 \/ ~r.json \/ r.body = <<>>
       THEN fetch' = [fetch EXCEPT !.responses = <<r>>, !.requests = @ + 1,
                                   !.step = "break"]
       ELSE LET a == AddItems(fetch.projects, r.body, fetch.limit, fetch.wants_tutorial)
            IN IF a.raised
               THEN fetch' = [fetch EXCEPT !.responses = <<r>>, !.requests = @ + 1,
                                           !.projects = a.projects, !.step = "break"]
               ELSE fetch' = [fetch EXCEPT !.responses = <<r>>, !.requests = @ + 1,
                                           !.projects = a.projects, !.page = @ + 1,
                                           !.slept = Append(@, PageWait)]
  /\ UNCHANGED <<orchVars, entryVars, catVars, schedVars, logVars, newsVars>>

\* crawler.py 183: return projects, after a break or when the loop
\* condition fails.
search_remote_return ==
  /\ \/ fetch.step = "break"
     \/ fetch.step = "loop" /\ ~LoopCondition
  /\ FetchReturn(fetch.projects)
  /\ UNCHANGED <<orchVars, entryVars, catVars, schedVars, logVars, newsVars>>

InitFetch ==
  /\ OrchInit
  /\ EntryIdle
  /\ ScanIdle
  /\ AuxIdle

NextFetch ==
  \/ search_by_keywords_call
  \/ search_by_keywords_request
  \/ search_by_keywords_retry
  \/ search_by_keywords_parse
  \/ search_remote_call
  \/ search_remote_page
  \/ search_remote_return

FetchSpec == InitFetch /\ [][NextFetch]_vars

\* ------------------------------------------- crawl_external_page

\* crawler.py 427: "if len(projects) >= 30: break".
PageCap == 30

\* A repository name "owner/repo" or "owner/repo-n" as the regular
\* expression of crawler.py 393 extracts it: two parts without a slash.
FullName(owner, repo, n) == [owner |-> owner, repo |-> repo, n |-> n]
NoName == FullName("", "", 0)

\* str.lower() on the words that occur in the names below.
Lower(w) ==
  CASE w = "Login" -> "login"
    [] w = "Pricing" -> "pricing"
    [] OTHER -> w

\* "x in w" for a lower-case word w of the names below.
Has(w, x) ==
  \/ w = x
  \/ w = "weblogin" /\ x = "login"
  \/ w = "research" /\ x = "search"

\* crawler.py 399: the substrings that exclude a name.
Blacklist == {"site/policy", "login", "pricing", "features", "topics/",
              "search", "about", "contact"}

\* "x in full_name.lower()": an entry with a slash spans the two parts, any
\* other lies within one part.
Mentions(full_name, x) ==
  CASE x = "site/policy" ->
         Lower(full_name.owner) = "site" /\ Lower(full_name.repo) = "policy"
    [] x = "topics/" -> Lower(full_name.owner) = "topics"
    [] OTHER -> \/ Has(Lower(full_name.owner), x)
                \/ Has(Lower(full_name.repo), x)

\* Names of pages of github.com that are no projects, and names of projects
\* that mention such a word.
NonProjectNames ==
  {FullName("Login", "oauth", 0), FullName("site", "policy", 0),
   FullName("topics", "llm", 0), FullName("acme", "Pricing", 0),
   FullName("acme", "research", 0), FullName("weblogin", "kit", 0)}

\* A link of the page: whether its href matches the regular expression, and
\* the name extracted.
Link(match, full_name) == [match |-> match, full_name |-> full_name]

\* The links a page can have next: a link to something else, a link to a
\* repository not linked before, a link to one linked before, a link to a
\* name of NonProjectNames.
Links(f) ==
  {Link(FALSE, NoName)}
    \cup {Link(TRUE, FullName("acme", "tool", Cardinality(f.seen_repos) + 1))}
    \cup {Link(TRUE, nm) : nm \in f.seen_repos \cup NonProjectNames}

\* crawler.py 414-426: the lightweight entry; its id is str(hash(full_name)).
LinkEntry(full_name) ==
  [id |-> full_name, full_name |-> full_name, category |-> "news",
   language |-> "Unknown"]

\* The loop body without the test of crawler.py 399.
link_without_blacklist(f, href) ==
  IF ~href.match
  THEN [f EXCEPT !.links = @ + 1, !.skips = @ \cup {"nomatch"}]
  ELSE IF href.full_name \in f.seen_repos
  THEN [f EXCEPT !.links = @ + 1, !.skips = @ \cup {"seen"}]
  ELSE [f EXCEPT !.links = @ + 1,
                 !.seen_repos = @ \cup {href.full_name},
                 !.projects = Append(@, LinkEntry(href.full_name)),
                 !.step = IF Len(f.projects) + 1 >= PageCap THEN "break"
                          ELSE "links"]

\* crawler.py 389-427: one iteration of "for link in links".
scan_link(f, href) ==
  IF ~href.match
  THEN [f EXCEPT !.links = @ + 1, !.skips = @ \cup {"nomatch"}]
  ELSE IF href.full_name \in f.seen_repos
  THEN [f EXCEPT !.links = @ + 1, !.skips = @ \cup {"seen"}]
  ELSE IF \E x \in Blacklist : Mentions(href.full_name, x)
  THEN [f EXCEPT !.links = @ + 1, !.skips = @ \cup {"blacklist"}]
  ELSE [f EXCEPT !.links = @ + 1,
                 !.seen_repos = @ \cup {href.full_name},
                 !.projects = Append(@, LinkEntry(href.full_name)),
                 !.step = IF Len(f.projects) + 1 >= PageCap THEN "break"
                          ELSE "links"]

\* crawler.py 368-377: the request; a status other than 200 returns [], an
\* exception of requests.get is caught at 431-433 and returns [].
crawl_external_page_call ==
  /\ fetch.step \in {"idle", "returned"}
  /\ \E status \in {200, 404, 500}, raised \in BOOLEAN :
       fetch' = [NoFetch EXCEPT
                   !.fn = "crawl_external_page", !.requests = 1,
                   !.responses = IF raised THEN <<>>
                                 ELSE <<Response(status, FALSE, <<>>)>>,
                   !.step = IF raised \/ status # 200 THEN "returned"
                            ELSE "links",
                   !.outcome = IF raised \/ status # 200 THEN "returned"
                               ELSE None,
                   !.error = IF raised THEN "exception"
                             ELSE IF status # 200 THEN "status" ELSE None]
  /\ UNCHANGED <<orchVars, entryVars, catVars, schedVars, logVars, newsVars>>

\* crawler.py 389-427, 431-433: the next link of the page; an exception
\* raised in the iteration ends the call with [].
crawl_external_page_link ==
  /\ fetch.fn = "crawl_external_page"
  /\ fetch.step = "links"
  /\ fetch.links < MaxLinks
  /\ \E href \in Links(fetch), raised \in BOOLEAN :
       fetch' = IF raised
                THEN [fetch EXCEPT !.step = "returned", !.projects = <<>>,
                                   !.outcome = "returned",
                                   !.error = "exception"]
                ELSE scan_link(fetch, href)
  /\ UNCHANGED <<orchVars, entryVars, catVars, schedVars, logVars, newsVars>>

\* crawler.py 427-429: after the break, or with no link left, "return
\* projects".
crawl_external_page_return ==
  /\ fetch.fn = "crawl_external_page"
  /\ fetch.step \in {"links", "break"}
  /\ FetchReturn(fetch.projects)
  /\ UNCHANGED <<orchVars, entryVars, catVars, schedVars, logVars, newsVars>>

NextPage ==
  \/ crawl_external_page_call
  \/ crawl_external_page_link
  \/ crawl_external_page_return

PageSpec == InitFetch /\ [][NextPage]_vars

\* ------------------------------------------ fetch_project_by_url

\* The repositories looked up: "acme/tool", and two whose name ends in
\* digits, "acme/tool-403" and "acme/tool-429".
LookupNames == {FullName("acme", "tool", n) : n \in {0, 403, 429}}

\* What requests.get and raise_for_status come to: a response with a
\* status, 200 with or without a JSON body, or no response at all (status
\* 0: a connection error or a timeout).
LookupStatuses == {0, 200, 403, 429, 404, 500}
LookupResponses ==
  {Response(st, TRUE, <<>>) : st \in LookupStatuses}
    \cup {Response(200, FALSE, <<>>)}

\* crawler.py 260, "code in str(e)": the text of an HTTPError is
\* "<status> ... Error: ... for url: <api_url>", that of a connection error
\* names the url as well, that of a JSON error names neither.
InMessage(r, full_name, code) ==
  IF r.status = 200 THEN FALSE
  ELSE r.status = code \/ full_name.n = code

\* crawler.py 255-256: the entry of the API, category "manual".
ApiEntry(full_name) ==
  [id |-> full_name, full_name |-> full_name, category |-> "manual",
   language |-> "Python"]

\* crawler.py 299-312: the entry of the scraped page.
ScrapedEntry(full_name) ==
  [id |-> full_name, full_name |-> full_name, category |-> "manual_scraped",
   language |-> "Unknown (Scraped)"]

\* crawler.py 240-253: the call and the request to the API.
fetch_project_by_url_call ==
  /\ fetch.step \in {"idle", "returned"}
  /\ \E full_name \in LookupNames, token \in BOOLEAN :
       fetch' = [NoFetch EXCEPT !.fn = "fetch_project_by_url",
                                !.category = "manual", !.token = token,
                                !.seen_repos = {full_name},
                                !.step = "request"]
  /\ UNCHANGED <<orchVars, entryVars, catVars, schedVars, logVars, newsVars>>

\* crawler.py 252-265: the response of the API; the entry, or in the
\* handler the fallback if the text of the exception has "403" or "429" in
\* it, else None.
fetch_project_by_url_request ==
  /\ fetch.fn = "fetch_project_by_url"
  /\ fetch.step = "request"
  /\ \E r \in LookupResponses, full_name \in fetch.seen_repos :
       LET f == [fetch EXCEPT !.requests = 1, !.responses = <<r>>]
       IN fetch' =
            IF r.status = 200 /\ r.json
            THEN [f EXCEPT !.step = "returned", !.outcome = "returned",
                           !.projects = <<ApiEntry(full_name)>>]
            ELSE IF \E code \in QuotaStatuses : InMessage(r, full_name, code)
            THEN [f EXCEPT !.step = "scrape"]
            ELSE [f EXCEPT !.step = "returned", !.outcome = "returned",
                           !.error = "exception"]
  /\ UNCHANGED <<orchVars, entryVars, catVars, schedVars, logVars, newsVars>>

\* crawler.py 267-316: the page of the repository; its entry, or None after
\* any exception.
_scrape_github_page_fallback ==
  /\ fetch.fn = "fetch_project_by_url"
  /\ fetch.step = "scrape"
  /\ \E r \in LookupResponses, full_name \in fetch.seen_repos :
       LET f == [fetch EXCEPT !.requests = 2, !.responses = Append(@, r),
                              !.step = "returned", !.outcome = "returned"]
       IN fetch' =
            IF r.status = 200
            THEN [f EXCEPT !.projects = <<ScrapedEntry(full_name)>>]
            ELSE [f EXCEPT !.error = "exception"]
  /\ UNCHANGED <<orchVars, entryVars, catVars, schedVars, logVars, newsVars>>

NextLookup ==
  \/ fetch_project_by_url_call
  \/ fetch_project_by_url_request
  \/ _scrape_github_page_fallback

LookupSpec == InitFetch /\ [][NextLookup]_vars

\* ------------------------------- run_news_scan, statement by statement

\* The lists crawl_external_page can return: no id twice (crawler.py 398).
PageLists == {SeqOf(S) : S \in SUBSET Ids}

\* server.py 265-274 with database.py 275-285: a row with the url is inserted
\* into news_sources.
add_news_source(u) ==
  /\ u \notin news_sources
  /\ news_sources' = news_sources \cup {u}
  /\ UNCHANGED news
  /\ UNCHANGED <<orchVars, entryVars, catVars, fetchVars, schedVars, logVars>>

\* server.py 276-280 with database.py 287-291: the row is deleted.
delete_news_source(u) ==
  /\ u \in news_sources
  /\ news_sources' = news_sources \ {u}
  /\ UNCHANGED news
  /\ UNCHANGED <<orchVars, entryVars, catVars, fetchVars, schedVars, logVars>>

\* A step of thread t's run_news_scan that changes only its locals.
NewsLocal(t, n) ==
  /\ news' = [news EXCEPT ![t] = n]
  /\ UNCHANGED news_sources

\* server.py 141-150: POST /api/scan/news: "if master.is_running: return
\* 400", else a thread with target master.run_news_scan is started.
scan_news(t) ==
  /\ news[t].step = "idle"
  /\ NewsLocal(t, IF is_running
                  THEN [news[t] EXCEPT !.step = "refused", !.result = "busy"]
                  ELSE [news[t] EXCEPT !.step = "started"])
  /\ UNCHANGED <<orchVars, entryVars, catVars, fetchVars, schedVars, logVars>>

\* master.py 312: self.is_running = True
news_scan_claim(t) ==
  /\ news[t].step = "started"
  /\ is_running' = TRUE
  /\ NewsLocal(t, [news[t] EXCEPT !.step = "task"])
  /\ UNCHANGED <<current_task, progress, catalog, pc, nested, todo, results,
                 emitted, raisedIn, stopCalled, stopSet, calls>>
  /\ UNCHANGED <<entryVars, catVars, fetchVars, schedVars, logVars>>

\* master.py 313-320: self.current_task = "news_scan"; total_found = 0;
\* "for url in DISCOVERY_URLS" begins.
news_scan_task(t) ==
  /\ news[t].step = "task"
  /\ current_task' = "news_scan"
  /\ NewsLocal(t, [news[t] EXCEPT !.step = "loop", !.urls = DISCOVERY_URLS,
                                  !.stored = news_sources])
  /\ UNCHANGED <<is_running, progress, catalog, pc, nested, todo, results,
                 emitted, raisedIn, stopCalled, stopSet, calls>>
  /\ UNCHANGED <<entryVars, catVars, fetchVars, schedVars, logVars>>

\* master.py 320-322, 330, 342-344: the next url is crawled and
\* source_count set to 0; with no url left total_found is put into the
\* results and returned.
news_scan_crawl(t) ==
  /\ news[t].step = "loop"
  /\ IF news[t].urls = <<>>
     THEN NewsLocal(t, [news[t] EXCEPT !.step = "finally",
                                       !.result = "completed",
                                       !.reported = news[t].total_found])
     ELSE \E projects \in PageLists :
            NewsLocal(t, [news[t] EXCEPT
                            !.step = "projects",
                            !.crawled = Append(@, Head(news[t].urls)),
                            !.projects = projects, !.source_count = 0])
  /\ UNCHANGED <<orchVars, entryVars, catVars, fetchVars, schedVars, logVars>>

\* master.py 331-333, 339-340: "for p in projects: if not
\* self.db.get_project(p['id'])"; after the last project total_found +=
\* source_count.  get_project may raise (345-347).
news_scan_get_project(t) ==
  /\ news[t].step = "projects"
  /\ IF news[t].projects = <<>>
     THEN NewsLocal(t, [news[t] EXCEPT
                          !.step = "loop", !.urls = Tail(@),
                          !.total_found = @ + news[t].source_count])
     ELSE \E ok \in BOOLEAN :
            NewsLocal(t,
              IF ~ok
              THEN [news[t] EXCEPT !.step = "finally", !.result = "error"]
              ELSE IF catalog[Head(news[t].projects)] = Absent
              THEN [news[t] EXCEPT !.step = "upsert"]
              ELSE [news[t] EXCEPT !.projects = Tail(@)])
  /\ UNCHANGED <<orchVars, entryVars, catVars, fetchVars, schedVars, logVars>>

\* master.py 334-337: p['category'] = 'news'; self.db.upsert_project(p);
\* source_count += 1.  upsert_project may raise (345-347).
news_scan_upsert(t) ==
  /\ news[t].step = "upsert"
  /\ LET p == Head(news[t].projects) IN
     \E ok \in BOOLEAN :
       IF ok
       THEN /\ catalog' = upsert_project(catalog, {p}, "news")
            /\ NewsLocal(t, [news[t] EXCEPT
                  !.step = "projects", !.projects = Tail(@),
                  !.source_count = @ + 1,
                  !.inserted = IF catalog[p] = Absent THEN @ \cup {p} ELSE @,
                  !.updated = IF catalog[p] = Absent THEN @ ELSE @ \cup {p}])
       ELSE /\ NewsLocal(t, [news[t] EXCEPT !.step = "finally",
                                            !.result = "error"])
            /\ UNCHANGED catalog
  /\ UNCHANGED <<is_running, current_task, progress, pc, nested, todo, results,
                 emitted, raisedIn, stopCalled, stopSet, calls>>
  /\ UNCHANGED <<entryVars, catVars, fetchVars, schedVars, logVars>>

\* master.py 349-351: finally: self.is_running = False;
\* self.current_task = None; the method returns.
news_scan_finally(t) ==
  /\ news[t].step = "finally"
  /\ is_running' = FALSE
  /\ current_task' = None
  /\ NewsLocal(t, [news[t] EXCEPT !.step = "returned"])
  /\ UNCHANGED <<progress, catalog, pc, nested, todo, results,
                 emitted, raisedIn, stopCalled, stopSet, calls>>
  /\ UNCHANGED <<entryVars, catVars, fetchVars, schedVars, logVars>>

InitNews ==
  /\ OrchInit
  /\ EntryIdle
  /\ ScanIdle
  /\ AuxIdle

\* Scans started by concurrent requests.
NextNews ==
  \/ \E t \in Threads :
       \/ scan_news(t)
       \/ news_scan_claim(t)
       \/ news_scan_task(t)
       \/ news_scan_crawl(t)
       \/ news_scan_get_project(t)
       \/ news_scan_upsert(t)
       \/ news_scan_finally(t)

NewsSpec == InitNews /\ [][NextNews]_vars

\* One scan, with the user editing the news sources.
NextSources ==
  \/ \E u \in Urls :
       \/ add_news_source(u)
       \/ delete_news_source(u)
  \/ \E t \in Runner :
       \/ scan_news(t)
       \/ news_scan_claim(t)
       \/ news_scan_task(t)
       \/ news_scan_crawl(t)
       \/ news_scan_get_project(t)
       \/ news_scan_upsert(t)
       \/ news_scan_finally(t)

SourcesSpec == InitNews /\ [][NextSources]_vars

\* ------------------------------------------------ the live event stream

\* The levels _notify is called with.
Levels == {"info", "success", "warning", "error"}

\* The callbacks that can be registered: the server's log_callback
\* (server.py 19-21, "log_queue.put(data)" on an unbounded queue.Queue) and
\* a callback that raises.
CallbackKinds == {"log_callback", "raising"}

\* master.py 61-63: self.callbacks.append(callback).
add_callback ==
  /\ Len(callbacks) < MaxCallbacks
  /\ \E cb \in CallbackKinds : callbacks' = Append(callbacks, cb)
  /\ UNCHANGED <<log_queue, streams, notified>>
  /\ UNCHANGED <<orchVars, entryVars, catVars, fetchVars, schedVars, newsVars>>

\* What a loop over the callbacks has come to: the queue, the number of
\* callbacks called, and whether an exception left the loop.
Delivery(queue, called, raised) ==
  [queue |-> queue, called |-> called, raised |-> raised]

\* A loop without the try/except of master.py 68-71: the first callback that
\* raises ends it.
RECURSIVE notify_unprotected(_, _, _)
notify_unprotected(cbs, queue, data) ==
  IF cbs = <<>> THEN Delivery(queue, 0, FALSE)
  ELSE IF Head(cbs) = "raising" THEN Delivery(queue, 1, TRUE)
  ELSE LET rest == notify_unprotected(Tail(cbs), Append(queue, data), data)
       IN Delivery(rest.queue, rest.called + 1, rest.raised)

\* master.py 67-71: "for cb in self.callbacks: try: cb({...}) except: pass".
\* log_callback appends the event to the queue; what a callback raises is
\* dropped and the loop goes on with the next callback.
RECURSIVE CallEach(_, _, _)
CallEach(cbs, queue, data) ==
  IF cbs = <<>> THEN Delivery(queue, 0, FALSE)
  ELSE LET put == IF Head(cbs) = "log_callback" THEN Append(queue, data)
                  ELSE queue
           rest == CallEach(Tail(cbs), put, data)
       IN Delivery(rest.queue, rest.called + 1, rest.raised)

\* master.py 65-71 with server.py 19-23: _notify calls every callback; the
\* one callback the server registers, log_callback, puts the event on
\* log_queue.  The event is recorded with its number, its level, the
\* clients that were connected to /api/logs when it was emitted, the number
\* of callbacks called and whether _notify raised.
_notify ==
  /\ Len(notified) < MaxEvents
  /\ \E level \in Levels :
       LET data == [n |-> Len(notified) + 1, level |-> level,
                    audience |-> {c \in Clients : streams[c].connected}]
           done == CallEach(callbacks, log_queue, data)
       IN /\ notified' = Append(notified,
                                [event |-> data, called |-> done.called,
                                 raised |-> done.raised])
          /\ log_queue' = done.queue
  /\ UNCHANGED <<streams, callbacks>>
  /\ UNCHANGED <<orchVars, entryVars, catVars, fetchVars, schedVars, newsVars>>

\* server.py 379-390: a client opens /api/logs; its generator starts.
stream_logs(c) ==
  /\ ~streams[c].connected
  /\ streams' = [streams EXCEPT ![c].connected = TRUE]
  /\ UNCHANGED <<log_queue, notified, callbacks>>
  /\ UNCHANGED <<orchVars, entryVars, catVars, fetchVars, schedVars, newsVars>>

\* server.py 382-386: data = log_queue.get(timeout=30); yield it to this
\* client.  (With the queue empty the generator yields a "ping" after the
\* timeout, which is no event.)
stream_logs_generate(c) ==
  /\ streams[c].connected
  /\ log_queue # <<>>
  /\ streams' = [streams EXCEPT ![c].received = Append(@, Head(log_queue))]
  /\ log_queue' = Tail(log_queue)
  /\ UNCHANGED <<notified, callbacks>>
  /\ UNCHANGED <<orchVars, entryVars, catVars, fetchVars, schedVars, newsVars>>

InitEvents ==
  /\ OrchInit
  /\ EntryIdle
  /\ ScanIdle
  /\ AuxIdle

NextEvents ==
  \/ _notify
  \/ \E c \in Clients :
       \/ stream_logs(c)
       \/ stream_logs_generate(c)

EventSpec == InitEvents /\ [][NextEvents]_vars

\* server.py 23: the callbacks are registered when the server module is
\* loaded, before the first event is emitted.
register_callback ==
  /\ notified = <<>>
  /\ add_callback

\* The event stream with the callbacks registered at start-up.
NextNotify ==
  \/ register_callback
  \/ _notify
  \/ \E c \in Clients :
       \/ stream_logs(c)
       \/ stream_logs_generate(c)

NotifySpec == InitEvents /\ [][NextNotify]_vars

\* ----------------------------------------------------- the schedulers

\* The marks of a thread that is about to enter a method: the daily loop at
\* "master.run_full_scan()" (master.py 495), the thread the backlog loop has
\* started with target=self.run_batch_analysis (master.py 56).
Scheduled == Result("scheduled", FALSE)
Spawned == Result("spawned", FALSE)

\* Database.get_pending_count: total rows minus the rows whose ai_model_name
\* is ilike %120b%; 0 when the store raises inside its try.
get_pending_count(cat) ==
  Cardinality({i \in Ids : cat[i] # Absent /\ cat[i].ai # "120b"})

\* master.py 481-494: one iteration of run_scheduled_scan up to the call:
\* now = datetime.now() (the day it reads is not before the day read last);
\* at the configured hour and minute, today_str = the day, and with
\* last_run_date != today_str the loop goes on to master.run_full_scan().
\* Otherwise (also when get_setting raises) the loop sleeps and iterates.
\* Without a client get_setting raises in _ensure_client (database.py 255);
\* the except block of the loop (master.py 501-503) prints and sleeps.
run_scheduled_scan_tick(t) ==
  /\ sched.dstep = "sleep"
  /\ pc[t] = "idle"
  /\ \E d \in sched.day..MaxDays, at_time \in BOOLEAN :
       IF ~sched.client
       THEN /\ sched' = [sched EXCEPT !.day = d, !.absorbed = TRUE]
            /\ UNCHANGED results
       ELSE IF at_time /\ sched.last_run_date # d
       THEN /\ sched' = [sched EXCEPT !.day = d, !.today_str = d, !.skipped = FALSE,
                                      !.dstep = "call", !.invoked[d] = @ + 1]
            /\ results' = [results EXCEPT ![t] = Scheduled]
       ELSE /\ sched' = [sched EXCEPT !.day = d, !.skipped = at_time]
            /\ UNCHANGED results
  /\ UNCHANGED <<is_running, current_task, progress, catalog, pc, nested, todo,
                 emitted, raisedIn, stopCalled, stopSet, calls>>
  /\ UNCHANGED <<entryVars, catVars, fetchVars, logVars, newsVars>>

\* master.py 495: master.run_full_scan(), on the scheduler's own thread.
run_scheduled_scan_call(t) ==
  /\ sched.dstep = "call"
  /\ results[t] = Scheduled
  /\ run_full_scan_check(t)

\* A loop that does not note the day of its run.
scan_day_not_noted(t) ==
  /\ sched.dstep = "call"
  /\ pc[t] = "idle"
  /\ results[t] # Scheduled
  /\ sched' = [sched EXCEPT !.dstep = "sleep"]
  /\ UNCHANGED orchVars
  /\ UNCHANGED <<entryVars, catVars, fetchVars, logVars, newsVars>>

\* master.py 496-497: the call has returned (whatever it returned):
\* last_run_date = today_str; time.sleep(65).
run_scheduled_scan_done(t) ==
  /\ sched.dstep = "call"
  /\ pc[t] = "idle"
  /\ results[t] # Scheduled
  /\ sched' = [sched EXCEPT !.last_run_date = sched.today_str, !.dstep = "sleep"]
  /\ UNCHANGED orchVars
  /\ UNCHANGED <<entryVars, catVars, fetchVars, logVars, newsVars>>

\* master.py 51-52: the backlog loop wakes up and reads self.is_running.
check_and_analyze_read ==
  /\ sched.bstep = "sleep"
  /\ sched' = [sched EXCEPT !.idle_then = is_running \/ \A t \in Threads : ~Active(t),
                            !.bstep = IF is_running THEN "sleep" ELSE "count"]
  /\ UNCHANGED orchVars
  /\ UNCHANGED <<entryVars, catVars, fetchVars, logVars, newsVars>>

\* master.py 53-56: pending_count = self.db.get_pending_count(); if it is
\* positive, the start event and a new thread that runs run_batch_analysis.
\* get_pending_count calls self._ensure_client() before its try
\* (database.py 167-169): without a client it raises, and check_and_analyze
\* has no try, so the exception ends the loop's thread.
check_and_analyze_count ==
  /\ sched.bstep = "count"
  /\ IF ~sched.client
     THEN /\ sched' = [sched EXCEPT !.idle_then = TRUE, !.bstep = "dead"]
          /\ UNCHANGED results
     ELSE \E ok \in BOOLEAN :
       LET n == IF ok THEN get_pending_count(catalog) ELSE 0
       IN /\ sched' = [sched EXCEPT !.idle_then = TRUE, !.bstep = "sleep"]
          /\ IF n > 0
             THEN \E u \in Threads \ Runner :
                    /\ pc[u] = "idle" /\ results[u] # Spawned
                    /\ results' = [results EXCEPT ![u] = Spawned]
             ELSE UNCHANGED results
  /\ UNCHANGED <<is_running, current_task, progress, catalog, pc, nested, todo,
                 emitted, raisedIn, stopCalled, stopSet, calls>>
  /\ UNCHANGED <<entryVars, catVars, fetchVars, logVars, newsVars>>

\* The started thread enters run_batch_analysis.
spawned_batch_analysis(u) ==
  /\ results[u] = Spawned
  /\ run_batch_analysis_check(u)

\* The process with its two scheduler loops running (master.py 28,
\* server.py 402-405).
InitSched ==
  /\ OrchInit
  /\ EntryIdle
  /\ ScanIdle
  /\ FetchIdle
  /\ LogIdle
  /\ NewsIdle
  /\ \E client \in BOOLEAN :
       sched = [NoSched EXCEPT !.dstep = "sleep", !.bstep = "sleep",
                               !.client = client]

\* The daily loop alone.
NextDaily ==
  \E t \in Runner :
    \/ run_scheduled_scan_tick(t)
    \/ run_scheduled_scan_call(t)
    \/ run_scheduled_scan_done(t)
    \/ run_full_scan_claim(t)
    \/ run_full_scan_task(t)
    \/ run_news_scan_claim(t)
    \/ run_news_scan_task(t)
    \/ run_news_scan_source(t)
    \/ run_news_scan_release(t)
    \/ run_news_scan_return(t)
    \/ run_full_scan_init(t)
    \/ run_full_scan_category(t)
    \/ run_full_scan_category_done(t)
    \/ run_full_scan_pending(t)
    \/ run_full_scan_entry(t)
    \/ run_full_scan_entry_done(t)
    \/ archive_data(t)
    \/ run_full_scan_release(t)
    \/ run_full_scan_return(t)

DailySpec == InitSched /\ [][NextDaily]_vars

\* Both loops, the batch analyses running on the threads the backlog loop
\* starts.
NextSched ==
  \/ NextDaily
  \/ check_and_analyze_read
  \/ check_and_analyze_count
  \/ \E u \in Threads \ Runner :
       \/ spawned_batch_analysis(u)
       \/ run_batch_analysis_claim(u)
       \/ run_batch_analysis_task(u)
       \/ run_batch_analysis_init(u)
       \/ run_batch_analysis_loop(u)
       \/ run_batch_analysis_entry(u)
       \/ run_batch_analysis_entry_done(u)
       \/ run_batch_analysis_release(u)
       \/ run_batch_analysis_return(u)

SchedSpec == InitSched /\ [][NextSched]_vars

\* ============================================================ claims

ClaimPcs == {"fs_claim", "ba_claim"}
Others(t) == Threads \ {t}

\* C1: at every instant at most one full scan or batch analysis is between
\* its slot claim and its finally-release.
C1_MutualExclusion ==
  Cardinality({t \in Threads : Active(t)}) <= 1

\* C2: of the calls of run_full_scan / run_batch_analysis made on an idle
\* orchestrator, exactly one passes the is_running check: no two threads are
\* both past the check and about to write is_running = True.
C2_AtomicClaim ==
  \A t \in Threads : \A u \in Others(t) :
    ~(pc[t] \in ClaimPcs /\ pc[u] \in ClaimPcs)

\* C3: a call of run_full_scan or run_batch_analysis made while a full scan
\* or batch analysis (one that nobody has stopped) is executing returns the
\* busy result and leaves is_running, current_task, progress and the catalog
\* as they were.
C3_RejectedWithoutEffect ==
  [][\A t \in Threads :
       (run_full_scan_check(t) \/ run_batch_analysis_check(t))
       /\ (\E u \in Others(t) : Active(u) /\ stopSet[u] = "no")
       => /\ results'[t].kind = "busy"
          /\ pc'[t] = "idle"
          /\ UNCHANGED <<is_running, current_task, progress, catalog>>]_vars

\* C4: from the claim of the slot by run_full_scan until its finally block,
\* is_running = True and current_task = "full_scan", unless stop_task was
\* called.
C4_GateHeld ==
  \A t \in Threads :
    InFullScan(t) /\ pc[t] # "fs_task" /\ stopCalled[t] = "no"
    => is_running /\ current_task = "full_scan"

\* C5: a run_full_scan or run_batch_analysis that claimed the slot ends, on
\* every exit path, with is_running = False and current_task = None.
C5_ReleasedAtReturn ==
  [][\A t \in Threads :
       pc[t] \in {"fs_fin2", "ba_fin2"} /\ pc'[t] = "idle"
       => ~is_running' /\ current_task' = None]_vars

\* C6: when the processing of a backlog entry raises, the batch still
\* processes every remaining entry (unless it is stopped) and does not end
\* with an error result.
C6_EntryFailureIsolated ==
  \A t \in Threads :
    pc[t] = "ba_fin1" /\ "entry" \in raisedIn[t]
    => /\ ~results[t].error
       /\ (todo[t] = <<>> \/ stopSet[t] # "no")

\* C7: when a stage of run_full_scan has raised, the result that is returned
\* carries an 'error' field and an event of level "error" was emitted.
C7_StageFailureReported ==
  \A t \in Threads :
    pc[t] = "fs_fin1" /\ raisedIn[t] # {}
    => results[t].error /\ "error" \in emitted[t]

\* C8: once stop_task() has written is_running = False while a batch was
\* processing an entry, the batch starts no later entry.
C8_BatchStopsAfterEntry ==
  [][\A t \in Threads :
       pc[t] = "ba_loop" /\ pc'[t] = "ba_entry"
       => stopSet[t] \notin {"loop", "boundary"}]_vars

\* C9: once stop_task() has been called while a full scan was processing a
\* category or an entry, the scan processes no category or entry beyond the
\* one in progress.
C9_FullScanStops ==
  [][\A t \in Threads :
       pc[t] \in {"fs_cat", "fs_entry"} /\ pc'[t] # pc[t]
       => stopCalled[t] # "boundary"]_vars

\* C10: stop_task() answers "stopping" whenever a full scan or batch
\* analysis that nobody has stopped yet is executing, and only when some run
\* is executing; when no run is executing it answers "not_running", emits no
\* event and leaves is_running, current_task and progress unchanged.
C10_StopReportsRunState ==
  [][\A t \in Threads :
       stop_task_check(t)
       => /\ (\E u \in Threads : Active(u) /\ stopSet[u] = "no")
             => pc'[t] = "st_set"
          /\ pc'[t] = "st_set" => \E u \in Threads : InRun(u)
          /\ ~(\E u \in Threads : InRun(u))
             => /\ results'[t].kind = "not_running"
                /\ emitted'[t] = {}
                /\ UNCHANGED <<is_running, current_task, progress>>]_vars

\* C11: in every reachable state the progress record satisfies
\* 0 <= progress.done <= progress.total.
C11_ProgressInvariant ==
  0 <= progress.done /\ progress.done <= progress.total

\* C12: when run_batch_analysis returns status "completed", or run_full_scan
\* returns a result without an 'error' field, progress.done = progress.total
\* at the moment of the return.
C12_DoneEqualsTotalAtReturn ==
  [][\A t \in Threads :
       pc[t] \in {"fs_fin2", "ba_fin2"} /\ pc'[t] = "idle" /\ ~results'[t].error
       => progress.done = progress.total]_vars

\* ------------------------------------------------------------------
Generators == {"analyze_project", "generate_rag_summary", "capture_screenshot",
               "analyze_with_vision", "generate_tutorial"}
AllPopulated(p) ==
  /\ p.summary # "null" /\ is_120b(p)
  /\ p.rag # "null" /\ p.screenshot # "null"
  /\ p.visual # "null" /\ p.tutorial # "null"

C16_IncrementalCommit ==
  \A f \in produced \ {inflight} : row[f] = "new"

\* C16 witness: the write of the tutorial raised; the dense summary and the
\* analysis generated earlier in the iteration are in the row.
C16_Witness ==
  /\ estep = "raised_store" /\ inflight = "tutorial"
  /\ {"last_analyzed", "rag"} \subseteq produced
  /\ project.rag = "null" /\ row.rag = "new" /\ row.last_analyzed = "new"

\* C17: after one complete pass of the loop body over an unanalysed entry
\* (ai_summary null), the row has a non-null ai_summary, a non-null
\* ai_rag_summary and last_analyzed set.
C17_PopulatedAfterPass ==
  estep = "done" /\ project.summary = "null" /\ project.model = "null"
  => row.summary # "null" /\ row.rag # "null" /\ row.last_analyzed # "null"

FixedShape(a) == a.isdict /\ a.keys = AnalysisKeys /\ a.difficulty \in 1..5

\* C18: for every answer of the text-generation collaborator, the record
\* analyze_project returns has the fixed shape (summary, tech_stack,
\* use_cases, difficulty in 1..5, quick_start) and the catalog update that
\* follows does not raise because of the record.
C18_AnalysisHasFixedShape ==
  /\ "analyze_project" \in made => FixedShape(analysis)
  /\ estep # "raised_shape"

\* The stage of run_full_scan a position belongs to: 1 discovery, 2 category
\* fetch, 3 enrichment, 4 archive; 0 before and 5 after the stages.
StageOf(p) ==
  CASE p \in NewsPcs -> 1
    [] p \in {"fs_init", "fs_cat", "fs_cat_inc"} -> 2
    [] p \in {"fs_pending", "fs_entry", "fs_entry_inc"} -> 3
    [] p = "fs_archive" -> 4
    [] p \in {"fs_fin1", "fs_fin2"} -> 5
    [] OTHER -> 0

\* The stage the thread is in has nothing left to do.
StageFinished(t) ==
  \/ pc[t] \in {"fs_task", "ns_fin2"}
  \/ pc[t] \in {"fs_cat_inc", "fs_entry_inc"} /\ Tail(todo[t]) = <<>>
  \/ pc[t] = "fs_pending" /\ get_projects_needing_analysis(catalog) = <<>>

\* C13: within one run_full_scan the stages run in the order discovery,
\* category fetch, enrichment, archive: the scan never goes back to an
\* earlier stage, and it enters a stage only from the end of the stage
\* before it.
C13_StageOrder ==
  [][\A t \in Threads :
       InFullScan(t) /\ pc'[t] # pc[t]
       => /\ StageOf(pc'[t]) >= StageOf(pc[t])
          /\ StageOf(pc'[t]) \notin {StageOf(pc[t]), 5}
             => StageOf(pc'[t]) = StageOf(pc[t]) + 1 /\ StageFinished(t)]_vars

\* C13 witness: a full scan is at its archive stage after a category fetch
\* that stored a project and an enrichment that analysed it.
C13_Witness ==
  \E t \in Threads :
    /\ pc[t] = "fs_archive"
    /\ \E i \in Ids : catalog[i].category \in CATEGORIES /\ catalog[i].ai = "nomodel"

\* The number of rows of a category.
CountOf(cat, c) == Cardinality({i \in Ids : cat[i] # Absent /\ cat[i].category = c})

\* C14: for every catalog content, run_full_scan starts its fetch stage with
\* the list of all configured categories, each once, in ascending order of
\* the category's number of rows at that moment.
C14_FetchPriority ==
  [][\A t \in Threads :
       pc[t] = "fs_init" /\ pc'[t] # "fs_init"
       => /\ pc'[t] = "fs_cat"
          /\ Len(todo'[t]) = Cardinality(CATEGORIES)
          /\ {todo'[t][k] : k \in 1..Len(todo'[t])} = CATEGORIES
          /\ \A a, b \in 1..Len(todo'[t]) :
               a < b => CountOf(catalog, todo'[t][a]) <= CountOf(catalog, todo'[t][b])]_vars

\* C19: a fetch-driven upsert_project on an existing identifier leaves the
\* AI-derived fields of the row as they were (and the row in the table); they
\* change only in the enrichment update of that row.
C19_UpsertPreservesAi ==
  [][\A i \in Ids :
       catalog[i] # Absent =>
         /\ catalog'[i] # Absent
         /\ catalog'[i].ai # catalog[i].ai =>
              \E t \in Threads : pc[t] = "ba_entry" /\ Head(todo[t]) = i]_vars
\* A row that was analysed with a 120b model has been upserted by a category
\* scan: it carries the scanned category and still its AI fields.
C19_Witness ==
  \E t \in Threads, i \in Ids :
    /\ \E k \in 1..Len(scan[t].upserted) : scan[t].upserted[k] = i
    /\ catalog[i].category = scan[t].category
    /\ catalog[i].ai = "120b"

\* C20: run_category_scan with a category that is not configured returns the
\* result {error: Unknown category: ...}; the call fetches nothing, upserts
\* nothing, emits no event and leaves the catalog as it was.
C20_UnknownCategory ==
  [][\A t \in Threads :
       pc[t] = "idle" /\ calls' # calls /\ scan'[t].category \notin CATEGORIES \cup {None}
         => /\ pc'[t] = "idle"
            /\ results'[t] = Result("unknown_category", TRUE)
            /\ scan'[t].events = <<>>
            /\ scan'[t].fetches = 0
            /\ scan'[t].upserted = <<>>
            /\ catalog' = catalog]_vars
\* A call with an unknown category has returned, the store holding rows.
C20_Witness ==
  \E t \in Threads :
    /\ scan[t].category = "unknown"
    /\ results[t] = Result("unknown_category", TRUE)
    /\ \E i \in Ids : catalog[i] # Absent

\* C21: run_category_scan is outside the single-flight gate: a call with a
\* configured category goes on to its fetch whatever is_running is, and no
\* step of the call writes is_running, current_task or progress.
CategoryPcs == {"cs_fetch", "cs_upsert"}
C21_OutsideGate ==
  [][\A t \in Threads :
       /\ pc[t] = "idle" /\ scan'[t] # scan[t] /\ scan'[t].category \in CATEGORIES
            => pc'[t] = "cs_fetch" /\ results'[t] = NoResult
       /\ scan'[t] # scan[t] \/ (pc[t] \in CategoryPcs /\ pc'[t] # pc[t])
            => UNCHANGED <<is_running, current_task, progress>>]_vars
\* A category scan that was called while a run held the slot has returned
\* its count, a batch analysis still holding the slot.
C21_Witness ==
  \E t \in Threads, u \in Threads :
    /\ scan[t].gate
    /\ results[t] = Result("category", FALSE)
    /\ scan[t].upserted # <<>>
    /\ InBatch(u) /\ is_running

C23_QuotaBackoff ==
  fetch.fn = "search_by_keywords" =>
    /\ fetch.requests <= 2
    /\ fetch.outcome # "raised"
    /\ fetch.requests >= 1 /\ fetch.responses[1].status \in QuotaStatuses =>
         /\ fetch.slept # <<>> /\ fetch.slept[1] = QuotaWait
         /\ \A k \in 2..Len(fetch.slept) : fetch.slept[k] # QuotaWait
         /\ fetch.step \in {"parse", "returned"} => fetch.requests = 2
         /\ fetch.step = "returned" /\ Raises(fetch.responses[2]) => fetch.projects = <<>>
\* Two quota signals in a row: two requests, one wait, the empty list.
C23_Witness ==
  /\ fetch.fn = "search_by_keywords" /\ fetch.step = "returned"
  /\ fetch.requests = 2
  /\ fetch.responses[1].status = 429 /\ fetch.responses[2].status = 403
  /\ fetch.slept = <<QuotaWait>> /\ fetch.projects = <<>>

\* C24: when the first response of search_by_keywords is a quota signal and
\* the retry is a 200 response with well-formed items, the call returns one
\* entry per item of the retry's response, in order, each with the item's
\* identifier and the requested category.
C24_RetryResult ==
  /\ fetch.fn = "search_by_keywords" /\ fetch.step = "returned"
  /\ fetch.requests = 2
  /\ fetch.responses[1].status \in QuotaStatuses
  /\ ~Raises(fetch.responses[2])
  => /\ Len(fetch.projects) = Len(fetch.responses[2].body)
     /\ \A k \in 1..Len(fetch.projects) :
          fetch.projects[k] = [id |-> fetch.responses[2].body[k].id,
                               category |-> fetch.category]
\* A 429, then a 200 with two items: two entries of the category "news".
C24_Witness ==
  /\ fetch.fn = "search_by_keywords" /\ fetch.step = "returned"
  /\ fetch.responses[1].status = 429
  /\ Len(fetch.responses) = 2 /\ fetch.responses[2].status = 200
  /\ Len(fetch.projects) = MaxItems
  /\ \A k \in 1..Len(fetch.projects) : fetch.projects[k].category = "news"

\* C25: the list search_remote is building, and so the list it returns,
\* holds no identifier twice, whatever the pages repeat.
C25_NoDuplicateIdentifier ==
  fetch.fn = "search_remote" =>
    \A j \in 1..Len(fetch.projects), k \in 1..Len(fetch.projects) :
      j # k => fetch.projects[j].id # fetch.projects[k].id
\* Two pages processed, the second one repeating twice the one identifier
\* the first page gave; no quality filter (the query asks for tutorials).
C25_Witness ==
  /\ fetch.fn = "search_remote" /\ fetch.step = "loop"
  /\ fetch.page = 3 /\ fetch.limit = MaxLimit /\ fetch.wants_tutorial
  /\ Len(fetch.projects) = 1
  /\ Len(fetch.responses[1].body) = 2
  /\ \A k \in 1..2 : fetch.responses[1].body[k] = Item(fetch.projects[1].id, "repo")

\* C26: search_remote requests a page only while fewer than limit results
\* are collected, fewer than 3 pages have been requested and the page before
\* was a non-empty 200 response; the list never has more than limit
\* entries.
C26_BoundedPagination ==
  [][fetch'.fn = "search_remote" /\ fetch'.requests > fetch.requests
       => /\ Len(fetch.projects) < fetch.limit
          /\ fetch.requests < max_pages
          /\ fetch.requests > 0 =>
               /\ fetch.responses[1].status = 200
               /\ fetch.responses[1].json
               /\ fetch.responses[1].body # <<>>
          /\ Len(fetch'.projects) <= fetch.limit]_vars
\* Three pages requested and the call returned with fewer than limit results.
C26_Witness ==
  /\ fetch.fn = "search_remote" /\ fetch.step = "returned"
  /\ fetch.requests = max_pages /\ fetch.page = max_pages + 1
  /\ Len(fetch.projects) = 2 /\ fetch.limit = 3

\* C30: every event passed to _notify reaches every client that was
\* connected to the live event stream when it was emitted: once log_queue is
\* empty, each such client has received the event.
Received(c, data) ==
  \E k \in 1..Len(streams[c].received) : streams[c].received[k] = data
C30_FanOut ==
  log_queue = <<>> =>
    \A k \in 1..Len(notified) : \A c \in notified[k].event.audience :
      Received(c, notified[k].event)

\* C27: the daily loop reaches master.run_full_scan() at most once on each
\* calendar day.
C27_OncePerDay == \A d \in 1..MaxDays : sched.invoked[d] <= 1
\* The loop has run a scan on the first day, and an iteration at the
\* configured time of that same day has found the day noted.
C27_Witness ==
  /\ sched.invoked[1] = 1
  /\ sched.day = 1 /\ sched.last_run_date = 1
  /\ sched.skipped

\* C28: a scheduler loop starts a run only after it has found the gate open
\* in that iteration: the daily loop goes on to master.run_full_scan() only
\* with is_running False, and the backlog loop starts its thread only in an
\* iteration in which it has read is_running as False.
C28_TriggersCheckGate ==
  [][/\ sched.dstep = "sleep" /\ sched'.dstep = "call" => ~is_running
     /\ \A u \in Threads : results'[u] = Spawned /\ results[u] # Spawned
          => sched.bstep = "count"]_vars

\* C29: the backlog loop starts run_batch_analysis only if no full scan or
\* batch analysis was executing when it read the gate and the pending count
\* is positive; the batch runs on another thread and the loop goes back to
\* sleep without waiting for it.
C29_BacklogTrigger ==
  [][\A u \in Threads : results'[u] = Spawned /\ results[u] # Spawned
       => /\ sched.idle_then
          /\ get_pending_count(catalog) > 0
          /\ sched'.bstep = "sleep" /\ pc'[u] = "idle"]_vars

\* The number of log_callback registrations among the callbacks.
RECURSIVE Puts(_)
Puts(cbs) ==
  IF cbs = <<>> THEN 0
  ELSE (IF Head(cbs) = "log_callback" THEN 1 ELSE 0) + Puts(Tail(cbs))

\* C31: emitting an event never blocks and never fails the producer,
\* whatever the observers do: _notify can always be taken while events
\* remain to be emitted, and each call of it returns without raising after
\* calling every registered callback, the event being put on the queue by
\* every log_callback, those registered after a raising callback included.
C31_NonBlocking ==
  /\ [](Len(notified) < MaxEvents => ENABLED _notify)
  /\ [][LET e == notified'[Len(notified')]
         IN Len(notified') = Len(notified) + 1 =>
              /\ ~e.raised
              /\ e.called = Len(callbacks)
              /\ Len(log_queue') = Len(log_queue) + Puts(callbacks)]_vars
\* An event has been emitted with a raising callback registered before a
\* log_callback, with no client connected and events left on the queue.
C31_Witness ==
  /\ Len(callbacks) = 3
  /\ callbacks[2] = "raising" /\ callbacks[3] = "log_callback"
  /\ notified # <<>>
  /\ notified[Len(notified)].called = 3
  /\ Len(log_queue) >= 2
  /\ \A c \in Clients : ~streams[c].connected

\* C32: within one entry's iteration analyze_with_vision is called only if
\* capture_screenshot of that same iteration has produced a screenshot; with
\* the capture skipped or failed there is no vision call and no visual
\* summary is generated.
C32_VisionAfterCapture ==
  ("analyze_with_vision" \in made \/ "visual" \in produced) =>
    ("capture_screenshot" \in made /\ "screenshot" \in produced)

\* C33: crawl_external_page keeps at most 30 entries, no two for the same
\* owner/name and none whose owner/name mentions a word of the blacklist;
\* after a response other than 200 or an exception it returns the empty
\* list.
C33_PageEntries ==
  fetch.fn = "crawl_external_page" =>
    /\ Len(fetch.projects) <= PageCap
    /\ \A i, j \in 1..Len(fetch.projects) :
         fetch.projects[i].full_name = fetch.projects[j].full_name => i = j
    /\ \A i \in 1..Len(fetch.projects) : \A x \in Blacklist :
         ~Mentions(fetch.projects[i].full_name, x)
    /\ (fetch.step = "returned" /\ fetch.error # None) => fetch.projects = <<>>
\* A page with more than thirty links to repositories, among them a link
\* seen before and a link to a blacklisted name, has been returned with
\* thirty entries.
C33_Witness ==
  /\ fetch.fn = "crawl_external_page"
  /\ fetch.step = "returned" /\ fetch.error = None
  /\ Len(fetch.projects) = PageCap
  /\ {"seen", "blacklist"} \subseteq fetch.skips

\* C34: every entry fetch_project_by_url returns from the scraped page has
\* the language "Unknown (Scraped)"; the page is requested only after the
\* API answered 403 or 429, and after any other failure of the API no entry
\* is returned.
C34_TaggedFallback ==
  fetch.fn = "fetch_project_by_url" =>
    /\ \A i \in 1..Len(fetch.projects) :
         fetch.projects[i].category = "manual_scraped" =>
           fetch.projects[i].language = "Unknown (Scraped)"
    /\ fetch.requests = 2 => fetch.responses[1].status \in QuotaStatuses
    /\ (/\ fetch.step = "returned"
        /\ fetch.responses[1].status \notin QuotaStatuses
        /\ ~(fetch.responses[1].status = 200 /\ fetch.responses[1].json))
         => fetch.projects = <<>>

\* C35: a discovery scan crawls exactly the urls that the news_sources
\* table held when the scan began its loop over the sources.
C35_CrawlsStoredSources ==
  \A t \in Threads :
    (news[t].step = "returned" /\ news[t].result \notin {"busy", "error"}) =>
      {news[t].crawled[k] : k \in 1..Len(news[t].crawled)} = news[t].stored

\* C39: run_news_scan calls upsert_project only for an identifier that has
\* no entry in the catalog, the entry it stores has the category "news",
\* and the total_found it reports is the number of entries it has newly
\* inserted.
C39_InsertsOnly ==
  \A t \in Threads :
    /\ news[t].updated = {}
    /\ \A i \in news[t].inserted : catalog[i].category = "news"
    /\ (news[t].step = "returned" /\ news[t].result = "completed") =>
         news[t].reported = Cardinality(news[t].inserted)

\* C36: a batch analysis that has claimed the slot leaves its loop with
\* projects of its list unprocessed only if stop_task() was called during
\* that run.
C36_NoSpuriousStop ==
  \A t \in Threads :
    (/\ pc[t] = "ba_fin1"
     /\ results[t] = Result("batch_analysis", FALSE)
     /\ todo[t] # <<>>) => stopCalled[t] # "no"

\* C37: an entry that a batch analysis has processed without a failure is
\* no longer counted by get_pending_count, so that repeated batches bring
\* the count to 0.
C37_ProcessedNotPending ==
  \A u \in Threads :
    pc[u] = "ba_inc" =>
      get_pending_count([i \in Ids |-> IF i = Head(todo[u]) THEN catalog[i]
                                       ELSE Absent]) = 0

\* C38: the daily loop notes a day as done only after a full scan that was
\* executed: when run_full_scan has returned the busy result, last_run_date
\* stays as it was.
C38_DoneOnlyIfExecuted ==
  [][\A t \in Runner :
       (sched.dstep = "call" /\ results[t] = Result("busy", TRUE))
         => sched'.last_run_date = sched.last_run_date]_vars

\* C40: neither scheduler loop ever ends: an exception raised in an
\* iteration is absorbed by the loop.
C40_LoopsAlive == sched.dstep # "dead" /\ sched.bstep # "dead"

====
